---- MODULE Spec2Model ----
(***************************************************************************)
(* Message-tag handler registry of UnrealIRCd (src/api-mtag.c), modelled   *)
(* at pointer level: every MessageTagHandler is a heap object with its own *)
(* prev/next links, the registry is the head pointer mtaghandlers, client  *)
(* capabilities carry the mtag_handler back-reference, modules carry their *)
(* object list and their last error code.                                  *)
(***************************************************************************)
EXTENDS Integers, Sequences, FiniteSets, TLC

\* ------------------------------------------------------------------ bounds
MaxObj == 3          \* number of heap cells available for MessageTagHandler
NumModules == 1      \* number of loaded modules (Module *)
NumCaps == 1         \* number of client capabilities (ClientCapability *)
MaxHook == 3         \* number of heap cells available for Hook
MaxCb == 3           \* number of heap cells available for Callback
MaxMd == 3           \* number of heap cells available for ModDataInfo
MaxSlots == 2        \* number of slots of one ModData entity type
MaxChan == 2         \* number of channels in memory before a load
MaxReads == 2        \* number of loads of the database that are counted
MaxUnloads == 1      \* number of unloads of the module that are counted

\* --------------------------------------------------------------- constants
NULL == 0
MTAG_HANDLER_FLAGS_NONE == 0
MTAG_HANDLER_FLAGS_NO_CAP_NEEDED == 1
MODERR_NOERROR == 0
MODERR_EXISTS == 1
HOOK_CONTINUE == 0
HOOK_ALLOW == -1
HOOK_DENY == 1
HOOKTYPE_LOCAL_QUIT == 1
HOOKTYPE_CONFIGTEST == 15
HOOKTYPE_CONFIGRUN == 16
CALLBACKTYPE_CLOAK == 1
CALLBACKTYPE_CLOAKKEYCSUM == 2
MODDATATYPE_CLIENT == 3
MODDATATYPE_CHANNEL == 5
CHANNELDB_VERSION == 100
MOD_SUCCESS == 0
MOD_FAILED == -1
CONFIG_MAIN == 1
CONFIG_SET == 2
MAGIC_CHANNEL_START == 286331153     \* 0x11111111
MAGIC_CHANNEL_END == 572662306       \* 0x22222222
channeldb_configtest_ptr == 2        \* the handlers channeldb registers
channeldb_configrun_ptr == 3
BufLen == 512                        \* char buf[512] of set_channel_mode
MyParvLen == 64                      \* char *myparv[64] of set_channel_mode

Addr == 1..MaxObj
Modules == 1..NumModules
Caps == 1..NumCaps
HAddr == 1..MaxHook
HookTypes == {HOOKTYPE_LOCAL_QUIT}
ConfigHookTypes == {HOOKTYPE_CONFIGTEST, HOOKTYPE_CONFIGRUN}
Priorities == {1, 3, 5}
RetVals == {HOOK_CONTINUE, HOOK_ALLOW, HOOK_DENY}
CbAddr == 1..MaxCb
CbTypes == {CALLBACKTYPE_CLOAK, CALLBACKTYPE_CLOAKKEYCSUM}
CbFuncs == {1, 2}
MdAddr == 1..MaxMd
MdTypes == {MODDATATYPE_CLIENT, MODDATATYPE_CHANNEL}
MdNames == {"certfp", "operlogin", "tls_cipher"}
Slots == 0..(MaxSlots - 1)

\* Names are C strings, kept as sequences of character codes:
\* "a" = <<97>>, "A" = <<65>>, "b" = <<98>>, "c" = <<99>>.
NameSet == {<<97>>, <<65>>, <<98>>}

\* The names of the three-entry scenarios: "a", "b", "c".
DeepNames == {<<97>>, <<98>>, <<99>>}

VARIABLES
    mem,            \* heap: contents of every MessageTagHandler cell
    live,           \* cells currently allocated (not freed)
    mtaghandlers,   \* head of the registry list
    mtag_handler,   \* ClientCapability.mtag_handler, per capability
    objects,        \* Module.objects restricted to MOBJ_MTAG records
    errorcode,      \* Module.errorcode
    ircd_rehashing, \* loop.ircd_rehashing
    status,         \* "running", "aborted", "hung" or "undefined"
    last,           \* the last call and what it returned
    hmem,           \* heap: contents of every Hook cell
    hlive,          \* Hook cells currently allocated
    Hooks,          \* Hooks[hooktype]: head of the chain of a hook type
    horder,         \* the allocated Hook cells in the order of their HookAdd
    hlast,          \* the last hook call: what it invoked and returned
    cbmem,          \* heap: contents of every Callback cell
    cblive,         \* Callback cells currently allocated
    RCallbacks,     \* RCallbacks[cbtype]: the callback in use for the type
    cblast,         \* the last callback call and what it yielded
    mdmem,          \* heap: contents of every ModDataInfo cell
    mdlive,         \* ModDataInfo cells currently allocated
    mdlast,         \* the last ModData call and what it returned
    win32,          \* the build: TRUE when _WIN32 is defined
    files,          \* files[path]: the file at path (db), the one at
                    \* path.tmp (tmp) and the one at path.corrupt (corrupt)
    cfg,            \* the static struct cfg of the module image
    channels,       \* the channel list (channels, nextch), head first
    channeldb_loaded, \* the static variable of the loaded module image
    persistent,     \* the value saved by SavePersistentInt, -1 when none
    modstate,       \* channeldb: the entry point that ran last (phase),
                    \* how often read_channeldb has been called (reads)
                    \* and how often MOD_UNLOAD has (unloads)
    dblast          \* the last channeldb call and what it did

mtagvars == <<mem, live, mtaghandlers, mtag_handler, objects, errorcode,
              ircd_rehashing, last>>
hookvars == <<hmem, hlive, Hooks, horder, hlast>>
cbvars == <<cbmem, cblive, RCallbacks, cblast>>
mdvars == <<mdmem, mdlive, mdlast>>
dbvars == <<win32, files, cfg, channels, channeldb_loaded, persistent, modstate,
            dblast>>

\* What the calls of the message-tag registry leave alone.
nonmtag == <<hookvars, cbvars, mdvars, dbvars>>

\* What the hook calls leave alone.
nonhook == <<mtagvars, cbvars, mdvars, dbvars>>

vars == <<mem, live, mtaghandlers, mtag_handler, objects, errorcode,
          ircd_rehashing, status, last, hmem, hlive, Hooks, horder, hlast,
          cbmem, cblive, RCallbacks, cblast, mdmem, mdlive, mdlast,
          win32, files, cfg, channels, channeldb_loaded, persistent,
          modstate, dblast>>

\* A zero-filled cell, as MyMallocEx returns it; freed cells are kept blank.
Blank == [name |-> <<>>, flags |-> 0, is_ok |-> 0, can_send |-> 0,
          owner |-> NULL, clicap_handler |-> NULL, unloaded |-> 0,
          prev |-> NULL, next |-> NULL]

NoReq == [name |-> <<>>, flags |-> 0, is_ok |-> 0, can_send |-> 0,
          clicap_handler |-> NULL]

\* A MessageTagHandlerInfo.  is_ok and can_send are function pointers (0 is
\* the null pointer).
Request(name, flags, is_ok, can_send, clicap) ==
    [name |-> name, flags |-> flags, is_ok |-> is_ok, can_send |-> can_send,
     clicap_handler |-> clicap]

\* The requests modules make: a tag that needs no capability ...
PlainRequests(names) ==
    {Request(n, MTAG_HANDLER_FLAGS_NO_CAP_NEEDED, 1, 0, NULL) : n \in names}

\* ... a tag gated by a capability, with its own callbacks ...
GatedRequests(names) ==
    {Request(n, MTAG_HANDLER_FLAGS_NONE, 2, 1, c) : n \in names, c \in Caps}

\* ... and the two kinds of request the consistency checks reject.
BadRequests ==
    {Request(<<97>>, MTAG_HANDLER_FLAGS_NO_CAP_NEEDED, 1, 0, c) : c \in Caps}
    \cup {Request(<<97>>, MTAG_HANDLER_FLAGS_NONE, 1, 0, NULL)}

Requests == PlainRequests(NameSet) \cup GatedRequests(NameSet) \cup BadRequests

\* ------------------------------------------------------------ pure helpers
ToLower(c) == IF c >= 65 /\ c <= 90 THEN c + 32 ELSE c

\* stricmp(a, b) = 0
stricmp(a, b) ==
    IF Len(a) = Len(b) /\ \A i \in 1..Len(a) : ToLower(a[i]) = ToLower(b[i])
    THEN 0 ELSE 1

HasFlag(flags, bit) == (flags \div bit) % 2 = 1

\* The registry as one value, so that list surgery can be composed.
\* uaf records that freed memory was read or written.
Reg(m, l, h, c, u) == [mem |-> m, live |-> l, head |-> h, capm |-> c, uaf |-> u]
CurReg == Reg(mem, live, mtaghandlers, mtag_handler, FALSE)

\* Store of one field of cell a; a store into freed memory is recorded only.
SetField(st, a, f, v) ==
    IF a \in st.live
    THEN [st EXCEPT !.mem[a] = [st.mem[a] EXCEPT ![f] = v]]
    ELSE [st EXCEPT !.uaf = TRUE]

\* add_ListItem(item, &mtaghandlers)
add_ListItem(st, item) ==
    LET s1 == SetField(st, item, "next", st.head)
        s2 == SetField(s1, item, "prev", NULL)
        s3 == IF st.head # NULL THEN SetField(s2, st.head, "prev", item) ELSE s2
    IN  [s3 EXCEPT !.head = item]

\* del_ListItem(item, &mtaghandlers)
del_ListItem(st, item) ==
    LET p  == st.mem[item].prev
        s1 == IF p # NULL THEN SetField(st, p, "next", st.mem[item].next) ELSE st
        n  == s1.mem[item].next
        s2 == IF n # NULL THEN SetField(s1, n, "prev", s1.mem[item].prev) ELSE s1
    IN  IF s2.head = item THEN [s2 EXCEPT !.head = s2.mem[item].next] ELSE s2

\* MessageTagHandlerFind: the walk from cell m.  The result is
\* <<"ret", entry-or-NULL>>, <<"hung", NULL>> when the walk comes back to a
\* cell it already compared (it never ends), or <<"undefined", NULL>> when
\* it dereferences a freed cell.
RECURSIVE FindWalk(_, _, _, _)
FindWalk(st, m, token, seen) ==
    IF m = NULL THEN <<"ret", NULL>>
    ELSE IF m \notin st.live THEN <<"undefined", NULL>>
    ELSE IF m \in seen THEN <<"hung", NULL>>
    ELSE IF stricmp(token, st.mem[m].name) = 0 THEN <<"ret", m>>
    ELSE FindWalk(st, st.mem[m].next, token, seen \cup {m})

MessageTagHandlerFind(st, token) == FindWalk(st, st.head, token, {})

\* unload_mtag_handler_commit(m)
unload_mtag_handler_commit(st, m) ==
    LET c  == st.mem[m].clicap_handler
        s1 == IF c # NULL THEN [st EXCEPT !.capm[c] = NULL] ELSE st
        s2 == del_ListItem(s1, m)
    IN  [s2 EXCEPT !.mem[m] = Blank, !.live = s2.live \ {m}]

\* The loop of unload_all_unused_mtag_handlers from cell m; idle counts the
\* steps since the last commit: more than MaxObj of them without reaching
\* NULL means the walk is going round a cycle of active entries for ever.
RECURSIVE SweepLoop(_, _, _)
SweepLoop(st, m, idle) ==
    IF m = NULL THEN <<"running", st>>
    ELSE IF m \notin st.live THEN <<"undefined", [st EXCEPT !.uaf = TRUE]>>
    ELSE IF idle > MaxObj THEN <<"hung", st>>
    ELSE LET m_next == st.mem[m].next
         IN  IF st.mem[m].unloaded = 1
             THEN SweepLoop(unload_mtag_handler_commit(st, m), m_next, 0)
             ELSE SweepLoop(st, m_next, idle + 1)

\* Removal of the first MOBJ_MTAG record of a module's object list that
\* references m.
RECURSIVE DelObject(_, _)
DelObject(objs, m) ==
    IF objs = <<>> THEN <<>>
    ELSE IF Head(objs) = m THEN Tail(objs)
    ELSE <<Head(objs)>> \o DelObject(Tail(objs), m)

\* The record of a call: its arguments (the module is recorded for the calls
\* that return), the entry it acted on (m), the value it returned (ret) and
\* whether it touched freed memory (uaf).
Call(op, module, req, m, ret, uaf) ==
    [op |-> op, module |-> module, req |-> req, m |-> m, ret |-> ret, uaf |-> uaf]

\* -------------------------------------------------------------------- Init
\* A zero-filled Hook cell.
HBlank == [priority |-> 0, type |-> 0, func |-> 0, owner |-> NULL,
           prev |-> NULL, next |-> NULL]

\* The record of a hook call: the operation, the hook type, the entry added
\* or removed (h), the entries whose handler was invoked, in order (calls),
\* the values they returned (rets), whether the caller returned early, the
\* value it returned then (ret), whether a handler removed an entry during
\* the walk (removed) and whether freed memory was read (uaf).
HCall(op, type, chk, h, calls, rets, early, ret, removed, uaf) ==
    [op |-> op, type |-> type, chk |-> chk, h |-> h, calls |-> calls,
     rets |-> rets, early |-> early, ret |-> ret, removed |-> removed,
     uaf |-> uaf]

HNone == HCall("Init", 0, "", NULL, <<>>, <<>>, FALSE, 0, FALSE, FALSE)

InitHooks ==
    /\ hmem = [a \in HAddr |-> HBlank]
    /\ hlive = {}
    /\ Hooks = [t \in HookTypes \cup ConfigHookTypes |-> NULL]
    /\ horder = <<>>
    /\ hlast = HNone

\* A zero-filled Callback cell.
CbBlank == [type |-> 0, func |-> 0, owner |-> NULL, willberemoved |-> 0]

\* The record of a callback call: the operation, the entry added or removed
\* (cb), the function a use of the callback called (0: none) and the value
\* the use yielded.
CbCall(op, cb, called, value) ==
    [op |-> op, cb |-> cb, called |-> called, value |-> value]

InitCallbacks ==
    /\ cbmem = [a \in CbAddr |-> CbBlank]
    /\ cblive = {}
    /\ RCallbacks = [t \in CbTypes |-> NULL]
    /\ cblast = CbCall("Init", NULL, 0, "")

\* A zero-filled ModDataInfo cell.
MdBlank == [name |-> "", owner |-> NULL, type |-> 0, slot |-> 0, unloaded |-> 0]

\* The record of a ModData call: the operation, the descriptor it was given
\* (md) and the descriptor it returned (ret).
MdCall(op, md, ret) == [op |-> op, md |-> md, ret |-> ret]

InitModData ==
    /\ mdmem = [a \in MdAddr |-> MdBlank]
    /\ mdlive = {}
    /\ mdlast = MdCall("Init", NULL, NULL)

\* No file at a path.
NoFile == <<[w |-> 0, v |-> <<>>]>>

\* Paths are C strings: "channel.db", which setcfg names, and "other.db",
\* which a set::channeldb::database directive may name.  Both stand for the
\* absolute paths that convert_to_absolute_path makes of them; the empty
\* sequence stands for the null pointer.
DefaultPath == <<99, 104, 97, 110, 110, 101, 108, 46, 100, 98>>
OtherPath == <<111, 116, 104, 101, 114, 46, 100, 98>>
Paths == {DefaultPath, OtherPath}
NoPath == <<>>

\* No file at a path, none at its .tmp and none at its .corrupt.
NoFiles == [db |-> NoFile, tmp |-> NoFile, corrupt |-> NoFile]

\* The files cfg.database names now: the database, its .tmp and its
\* .corrupt.
dbfiles == files[cfg.database]

\* The record of a channeldb call: the operation, the value it returned,
\* the input/output calls it made in order (trace; a call that failed has
\* a "!", the fopen of a file that does not exist a "?"; the reads of a
\* load that succeeded are counted in pos instead), the number of tokens
\* it consumed from the file (pos), the records it counted as added, and
\* whether it reported that number.
DbCall(op, ret, trace, pos, added, reported) ==
    [op |-> op, ret |-> ret, trace |-> trace, pos |-> pos,
     added |-> added, reported |-> reported]

\* Something other than a call of channeldb happened last.
DbNone(op) == DbCall(op, 0, <<>>, 0, 0, FALSE)

\* The process has started in a build without _WIN32: no image of
\* channeldb was loaded yet (the static struct cfg is zero), no channel
\* exists and there is no database file.
InitChanneldb ==
    /\ win32 = FALSE
    /\ files = [p \in Paths |-> NoFiles]
    /\ cfg = [database |-> NoPath]
    /\ channels = <<>>
    /\ channeldb_loaded = 0
    /\ persistent = -1
    /\ modstate = [phase |-> "none", reads |-> 0, unloads |-> 0]
    /\ dblast = DbNone("Init")

\* The registries other than the hook table at the start of the process.
InitRegistries ==
    /\ InitCallbacks
    /\ InitModData
    /\ mem = [a \in Addr |-> Blank]
    /\ live = {}
    /\ mtaghandlers = NULL
    /\ mtag_handler = [c \in Caps |-> NULL]
    /\ objects = [M \in Modules |-> <<>>]
    /\ errorcode = [M \in Modules |-> MODERR_NOERROR]
    /\ ircd_rehashing = 0
    /\ status = "running"
    /\ last = Call("Init", NULL, NoReq, NULL, NULL, FALSE)

\* The state after construction.
Init == InitHooks /\ InitRegistries /\ InitChanneldb

\* ----------------------------------------------------------------- actions
Install(st) ==
    /\ mem' = st.mem
    /\ live' = st.live
    /\ mtaghandlers' = st.head
    /\ mtag_handler' = st.capm

\* The consistency checks with the second one (neither the flag nor a
\* capability) left out.
ContradictoryMut(mreq) ==
    HasFlag(mreq.flags, MTAG_HANDLER_FLAGS_NO_CAP_NEEDED) /\ mreq.clicap_handler # NULL

\* The request is rejected by the consistency checks and the process aborts.
Contradictory(mreq) ==
    \/ HasFlag(mreq.flags, MTAG_HANDLER_FLAGS_NO_CAP_NEEDED) /\ mreq.clicap_handler # NULL
    \/ ~HasFlag(mreq.flags, MTAG_HANDLER_FLAGS_NO_CAP_NEEDED) /\ mreq.clicap_handler = NULL

\* Lines 94-104 of MessageTagHandlerAdd, for the entry m (revived or new):
\* the field updates (can_send is not among them), the reverse dependency
\* and AddListItem.
AddTail(st, module, mreq, m) ==
    LET s1 == [st EXCEPT !.mem[m] = [st.mem[m] EXCEPT
                    !.owner = module, !.flags = mreq.flags,
                    !.is_ok = mreq.is_ok,
                    !.clicap_handler = mreq.clicap_handler]]
        s2 == IF mreq.clicap_handler # NULL
              THEN [s1 EXCEPT !.capm[mreq.clicap_handler] = m] ELSE s1
    IN  add_ListItem(s2, m)

MessageTagHandlerAdd(module, mreq) ==
    /\ status = "running"
    /\ UNCHANGED nonmtag
    /\ IF Contradictory(mreq)
       THEN /\ status' = "aborted"
            /\ last' = Call("Add", NULL, mreq, NULL, NULL, FALSE)
            /\ UNCHANGED <<mem, live, mtaghandlers, mtag_handler, objects,
                           errorcode, ircd_rehashing>>
       ELSE LET f == MessageTagHandlerFind(CurReg, mreq.name)
                m == f[2]
            IN  IF f[1] # "ret"
                THEN /\ status' = f[1]
                     /\ last' = Call("Add", NULL, mreq, NULL, NULL, f[1] = "undefined")
                     /\ UNCHANGED <<mem, live, mtaghandlers, mtag_handler,
                                    objects, errorcode, ircd_rehashing>>
                ELSE IF m # NULL /\ mem[m].unloaded = 0
                THEN /\ errorcode' = IF module # NULL
                                     THEN [errorcode EXCEPT ![module] = MODERR_EXISTS]
                                     ELSE errorcode
                     /\ last' = Call("Add", module, mreq, m, NULL, FALSE)
                     /\ UNCHANGED <<mem, live, mtaghandlers, mtag_handler,
                                    objects, ircd_rehashing, status>>
                ELSE IF m # NULL
                THEN LET st == AddTail([CurReg EXCEPT !.mem[m].unloaded = 0],
                                       module, mreq, m)
                     IN  /\ Install(st)
                         /\ objects' = IF module # NULL
                                       THEN [objects EXCEPT ![module] = <<m>> \o @]
                                       ELSE objects
                         /\ errorcode' = IF module # NULL
                                         THEN [errorcode EXCEPT ![module] = MODERR_NOERROR]
                                         ELSE errorcode
                         /\ last' = Call("Add", module, mreq, m, m, st.uaf)
                         /\ UNCHANGED <<ircd_rehashing, status>>
                ELSE \E a \in Addr \ live :
                     LET s0 == [CurReg EXCEPT !.live = @ \cup {a},
                                              !.mem[a] = [Blank EXCEPT !.name = mreq.name]]
                         st == AddTail(s0, module, mreq, a)
                     IN  /\ Install(st)
                         /\ objects' = IF module # NULL
                                       THEN [objects EXCEPT ![module] = <<a>> \o @]
                                       ELSE objects
                         /\ errorcode' = IF module # NULL
                                         THEN [errorcode EXCEPT ![module] = MODERR_NOERROR]
                                         ELSE errorcode
                         /\ last' = Call("Add", module, mreq, NULL, a, st.uaf)
                         /\ UNCHANGED <<ircd_rehashing, status>>

\* if (loop.ircd_rehashing), the test of MessageTagHandlerDel
Rehashing == ircd_rehashing # 0

\* MessageTagHandlerDel(m).  Outside a rehash the entry is freed first and
\* m->owner is read afterwards from the freed cell.  The value read is any
\* pointer value (owner_read): when it is the value the cell held before the
\* free the call behaves as if the read had been legal and the process goes
\* on; for any other value the call is carried out with it and the process
\* is left in the "undefined" status, which no call leaves.
MessageTagHandlerDel(m) ==
    /\ status = "running"
    /\ UNCHANGED nonmtag
    /\ m \in live
    /\ IF Rehashing
       THEN LET owner == mem[m].owner
            IN  /\ mem' = [mem EXCEPT ![m] = [@ EXCEPT !.unloaded = 1, !.owner = NULL]]
                /\ objects' = IF owner # NULL
                              THEN [objects EXCEPT ![owner] = DelObject(@, m)]
                              ELSE objects
                /\ last' = Call("Del", owner, NoReq, m, NULL, FALSE)
                /\ UNCHANGED <<live, mtaghandlers, mtag_handler, status>>
       ELSE \E owner_read \in Modules \cup {NULL} :
            LET st == unload_mtag_handler_commit(CurReg, m)
            IN  /\ Install(st)
                /\ objects' = IF owner_read # NULL
                              THEN [objects EXCEPT ![owner_read] = DelObject(@, m)]
                              ELSE objects
                /\ status' = IF owner_read = mem[m].owner THEN "running" ELSE "undefined"
                /\ last' = Call("Del", owner_read, NoReq, m, NULL, TRUE)
    /\ UNCHANGED <<errorcode, ircd_rehashing>>

unload_all_unused_mtag_handlers ==
    /\ status = "running"
    /\ UNCHANGED nonmtag
    /\ LET r == SweepLoop(CurReg, mtaghandlers, 0)
       IN  /\ Install(r[2])
           /\ status' = r[1]
           /\ last' = Call("Sweep", NULL, NoReq, NULL, NULL, r[2].uaf)
    /\ UNCHANGED <<objects, errorcode, ircd_rehashing>>

\* A caller looks a name up.
Find(token) ==
    /\ status = "running"
    /\ UNCHANGED nonmtag
    /\ LET f == MessageTagHandlerFind(CurReg, token)
       IN  /\ status' = IF f[1] = "ret" THEN "running" ELSE f[1]
           /\ last' = Call("Find", NULL, [NoReq EXCEPT !.name = token], NULL, f[2],
                           f[1] = "undefined")
    /\ UNCHANGED <<mem, live, mtaghandlers, mtag_handler, objects, errorcode,
                   ircd_rehashing>>

RehashStart ==
    /\ status = "running"
    /\ UNCHANGED nonmtag
    /\ ircd_rehashing = 0
    /\ ircd_rehashing' = 1
    /\ last' = Call("RehashStart", NULL, NoReq, NULL, NULL, FALSE)
    /\ UNCHANGED <<mem, live, mtaghandlers, mtag_handler, objects, errorcode, status>>

RehashEnd ==
    /\ status = "running"
    /\ UNCHANGED nonmtag
    /\ ircd_rehashing = 1
    /\ ircd_rehashing' = 0
    /\ last' = Call("RehashEnd", NULL, NoReq, NULL, NULL, FALSE)
    /\ UNCHANGED <<mem, live, mtaghandlers, mtag_handler, objects, errorcode, status>>

AddAny == \E module \in Modules \cup {NULL}, mreq \in Requests : MessageTagHandlerAdd(module, mreq)
DelAny == \E m \in Addr : MessageTagHandlerDel(m)
FindAny == \E token \in NameSet : Find(token)

Next ==
    \/ AddAny
    \/ DelAny
    \/ FindAny
    \/ unload_all_unused_mtag_handlers
    \/ RehashStart
    \/ RehashEnd

Spec == Init /\ [][Next]_vars

\* The same calls on three names, made by the core (no owner, no capability).
AddDeep == \E mreq \in PlainRequests(DeepNames) : MessageTagHandlerAdd(NULL, mreq)
FindDeep == \E token \in DeepNames : Find(token)

NextDeep ==
    \/ AddDeep
    \/ DelAny
    \/ FindDeep
    \/ unload_all_unused_mtag_handlers
    \/ RehashStart
    \/ RehashEnd

SpecDeep == Init /\ [][NextDeep]_vars

\* ------------------------------------------------------------ module unload
\* MessageTagHandlerDel(m) as a step of a longer operation, on the registry
\* st and the object lists objs of u; ok says that every read of freed
\* memory so far gave the value the cell held before it was freed.
\* owner_read is the value the read of m->owner gives after the free.
mtag_del(u, m, rehashing, owner_read) ==
    IF m \notin u.st.live
    THEN [u EXCEPT !.st.uaf = TRUE, !.ok = FALSE]
    ELSE IF rehashing
    THEN LET owner == u.st.mem[m].owner
         IN  [st |-> [u.st EXCEPT !.mem[m] = [@ EXCEPT !.unloaded = 1, !.owner = NULL]],
              objs |-> IF owner # NULL
                       THEN [u.objs EXCEPT ![owner] = DelObject(@, m)]
                       ELSE u.objs,
              ok |-> u.ok]
    ELSE [st |-> [unload_mtag_handler_commit(u.st, m) EXCEPT !.uaf = TRUE],
          objs |-> IF owner_read # NULL
                   THEN [u.objs EXCEPT ![owner_read] = DelObject(@, m)]
                   ELSE u.objs,
          ok |-> u.ok /\ owner_read = u.st.mem[m].owner]

\* The unload loop over the object records the module had when it began:
\* each MOBJ_MTAG record is handed to MessageTagHandlerDel.
RECURSIVE UnloadLoop(_, _, _, _)
UnloadLoop(u, todo, rehashing, reads) ==
    IF todo = <<>> THEN u
    ELSE UnloadLoop(mtag_del(u, Head(todo), rehashing, reads[Head(todo)]),
                    Tail(todo), rehashing, reads)

\* Module_free(mod): every object of the module is deleted through the
\* Del function of its kind.
Module_free(mod) ==
    /\ status = "running"
    /\ UNCHANGED nonmtag
    /\ objects[mod] # <<>>
    /\ \E reads \in [Addr -> Modules \cup {NULL}] :
          LET u == UnloadLoop([st |-> CurReg, objs |-> objects, ok |-> TRUE],
                              objects[mod], Rehashing, reads)
          IN  /\ \A a \in Addr : (Rehashing \/ a \notin {objects[mod][i] : i \in DOMAIN objects[mod]})
                                    => reads[a] = NULL
              /\ Install(u.st)
              /\ objects' = u.objs
              /\ status' = IF u.ok THEN "running" ELSE "undefined"
              /\ last' = Call("Unload", mod, NoReq, NULL, NULL, u.st.uaf)
    /\ UNCHANGED <<errorcode, ircd_rehashing>>

UnloadAny == \E mod \in Modules : Module_free(mod)

NextUnload ==
    \/ AddAny
    \/ DelAny
    \/ UnloadAny
    \/ unload_all_unused_mtag_handlers
    \/ RehashStart
    \/ RehashEnd

SpecUnload == Init /\ [][NextUnload]_vars

\* ------------------------------------------------------------ hook chains
\* The hook table as one value; uaf records that freed memory was read.
HReg(m, l, h, u) == [hmem |-> m, hlive |-> l, Hooks |-> h, uaf |-> u]
CurHReg == HReg(hmem, hlive, Hooks, FALSE)

\* The cells met by following next from cell h, at most n of them.
RECURSIVE HChainOf(_, _, _)
HChainOf(st, h, n) ==
    IF h = NULL \/ n = 0 THEN <<>>
    ELSE <<h>> \o HChainOf(st, st.hmem[h].next, n - 1)

HookChain(st, hooktype) == HChainOf(st, st.Hooks[hooktype], MaxHook)

\* Insertion at the head of the chain, whatever the priority.
InsertAtHead(st, a, hooktype, priority) ==
    LET n  == st.Hooks[hooktype]
        s1 == [st EXCEPT !.hmem[a].prev = NULL, !.hmem[a].next = n,
                         !.Hooks[hooktype] = a]
    IN  IF n # NULL THEN [s1 EXCEPT !.hmem[n].prev = a] ELSE s1

\* Insertion of cell a into the chain of its type, keeping priority order:
\* a goes in front of the first entry whose priority is greater than its
\* own, behind every entry of lower or equal priority.
InsertByPriority(st, a, hooktype, priority) ==
    LET chain == HookChain(st, hooktype)
        k == CHOOSE i \in 1..(Len(chain) + 1) :
                /\ \A j \in 1..(i - 1) : st.hmem[chain[j]].priority <= priority
                /\ (i <= Len(chain) => st.hmem[chain[i]].priority > priority)
        p == IF k = 1 THEN NULL ELSE chain[k - 1]
        n == IF k > Len(chain) THEN NULL ELSE chain[k]
        s1 == [st EXCEPT !.hmem[a].prev = p, !.hmem[a].next = n]
        s2 == IF p # NULL THEN [s1 EXCEPT !.hmem[p].next = a]
                          ELSE [s1 EXCEPT !.Hooks[hooktype] = a]
    IN  IF n # NULL THEN [s2 EXCEPT !.hmem[n].prev = a] ELSE s2

\* HookAddMain: a new entry in cell a.
hook_add(st, a, module, hooktype, priority, func) ==
    LET s0 == [st EXCEPT !.hlive = @ \cup {a},
                         !.hmem[a] = [HBlank EXCEPT !.priority = priority,
                                                    !.type = hooktype,
                                                    !.func = func,
                                                    !.owner = module]]
    IN  InsertByPriority(s0, a, hooktype, priority)

\* HookDel: the entry is taken out of its chain, the chain relinked and the
\* entry destroyed.
hook_del(st, hook) ==
    LET p  == st.hmem[hook].prev
        n  == st.hmem[hook].next
        t  == st.hmem[hook].type
        s1 == IF p # NULL THEN [st EXCEPT !.hmem[p].next = n]
                          ELSE [st EXCEPT !.Hooks[t] = n]
        s2 == IF n # NULL THEN [s1 EXCEPT !.hmem[n].prev = p] ELSE s1
    IN  [s2 EXCEPT !.hmem[hook] = HBlank, !.hlive = @ \ {hook}]

InstallHooks(st) ==
    /\ hmem' = st.hmem
    /\ hlive' = st.hlive
    /\ Hooks' = st.Hooks

RemoveFrom(seq, x) == SelectSeq(seq, LAMBDA y : y # x)

\* HookAddMain on the hook table: the entry gets the lowest free cell.
HookAddMain(module, hooktype, priority, func) ==
    \E a \in HAddr \ hlive :
        /\ \A b \in HAddr \ hlive : a <= b
        /\ InstallHooks(hook_add(CurHReg, a, module, hooktype, priority, func))
        /\ horder' = Append(horder, a)
        /\ hlast' = HCall("HookAdd", hooktype, "", a, <<>>, <<>>, FALSE, 0, FALSE, FALSE)

\* A call of HookAdd as a step of its own.
HookAdd(module, hooktype, priority, func) ==
    /\ status = "running"
    /\ HookAddMain(module, hooktype, priority, func)
    /\ UNCHANGED <<nonhook, status>>

HookDel(hook) ==
    /\ status = "running"
    /\ hook \in hlive
    /\ InstallHooks(hook_del(CurHReg, hook))
    /\ horder' = RemoveFrom(horder, hook)
    /\ hlast' = HCall("HookDel", hmem[hook].type, "", hook, <<>>, <<>>, FALSE, 0, FALSE, FALSE)
    /\ UNCHANGED <<nonhook, status>>

\* The caller-supplied test of the RunHookReturn* macros ("retval retchk"):
\* "== HOOK_DENY" or "!= HOOK_CONTINUE".
RetChk(chk, retval) ==
    IF chk = "== HOOK_DENY" THEN retval = HOOK_DENY ELSE retval # HOOK_CONTINUE

\* What the handlers of one walk do: the handler of cell h returns rets[h];
\* the handler of cell deleter (if any) calls HookDel(victim); stale says
\* what a read of freed memory yields: the value the cell held (TRUE) or
\* anything else (FALSE).
Behaviour(rets, deleter, victim, stale) ==
    [rets |-> rets, deleter |-> deleter, victim |-> victim, stale |-> stale]

\* What the handlers of the registered entries can do: every handler
\* returns any of the values; at most one handler also removes an entry
\* (its own or another one), and the read of a freed entry yields either the
\* value it held or anything else.
Behaviours(entries) ==
    {Behaviour(r, NULL, NULL, TRUE) : r \in [entries -> RetVals]}
    \cup {Behaviour(r, d, v, s) :
              r \in [entries -> RetVals], d \in entries, v \in entries, s \in BOOLEAN}

\* The test with the kind of macro ignored: any value but HOOK_CONTINUE ends
\* the walk.
ReturnsEarlyAlways(kind, chk, retval) == retval # HOOK_CONTINUE

\* The test left out: the walk never ends early.
ReturnsEarlyNever(kind, chk, retval) == FALSE

\* "if (retval retchk) return ..." of the RunHookReturn* macros; the RunHook*
\* macros (kind "all") have no such statement.
ReturnsEarly(kind, chk, retval) == kind # "all" /\ RetChk(chk, retval)

\* A boolean returned in place of the handler's value.
ReturnedBoolean(kind, retval) == IF kind = "int" THEN 1 ELSE 0

\* "return retval;" of RunHookReturnInt*, "return;" of RunHookReturn*.
Returned(kind, retval) == IF kind = "int" THEN retval ELSE 0

\* The result of a walk.
Walked(st, stat, calls, rets, early, ret, removed) ==
    [st |-> st, status |-> stat, calls |-> calls, rets |-> rets,
     early |-> early, ret |-> ret, removed |-> removed]

\* for (h = Hooks[hooktype]; h; h = h->next) { retval = (*h->func.intfunc)(..);
\* if (retval retchk) return [retval]; } from cell h on.  kind is "all" for
\* RunHook*, "void" for RunHookReturn* and "int" for RunHookReturnInt*.
RECURSIVE RunWalk(_, _, _, _, _, _, _, _)
RunWalk(st, h, kind, chk, beh, calls, rets, removed) ==
    IF h = NULL THEN Walked(st, "running", calls, rets, FALSE, 0, removed)
    ELSE IF h \notin st.hlive
    THEN Walked([st EXCEPT !.uaf = TRUE], "undefined", calls, rets, FALSE, 0, removed)
    ELSE LET retval == beh.rets[h]
             dels   == beh.deleter = h /\ beh.victim \in st.hlive
             s1     == IF dels THEN hook_del(st, beh.victim) ELSE st
             calls1 == Append(calls, h)
             rets1  == Append(rets, retval)
             rem1   == removed \/ dels
         IN  IF ReturnsEarly(kind, chk, retval)
             THEN Walked(s1, "running", calls1, rets1, TRUE,
                         Returned(kind, retval), rem1)
             ELSE IF h \in s1.hlive
             THEN RunWalk(s1, s1.hmem[h].next, kind, chk, beh, calls1, rets1, rem1)
             ELSE IF beh.stale
             THEN RunWalk([s1 EXCEPT !.uaf = TRUE], st.hmem[h].next, kind, chk, beh,
                          calls1, rets1, rem1)
             ELSE Walked([s1 EXCEPT !.uaf = TRUE], "undefined", calls1, rets1,
                         FALSE, 0, rem1)

\* A dispatch of the chain of hooktype by one of the macros.
Dispatch(op, hooktype, kind, chk, beh) ==
    /\ status = "running"
    /\ LET w == RunWalk(CurHReg, Hooks[hooktype], kind, chk, beh, <<>>, <<>>, FALSE)
       IN  /\ InstallHooks(w.st)
           /\ horder' = SelectSeq(horder, LAMBDA y : y \in w.st.hlive)
           /\ status' = w.status
           /\ hlast' = HCall(op, hooktype, chk, NULL, w.calls, w.rets, w.early, w.ret,
                             w.removed, w.st.uaf)
    /\ UNCHANGED nonhook

RunHook(hooktype, beh) == Dispatch("RunHook", hooktype, "all", "", beh)
RunHookReturn(hooktype, chk, beh) == Dispatch("RunHookReturn", hooktype, "void", chk, beh)
RunHookReturnInt(hooktype, chk, beh) == Dispatch("RunHookReturnInt", hooktype, "int", chk, beh)

HookAddAny ==
    \E t \in HookTypes, prio \in Priorities : HookAdd(NULL, t, prio, 1)
HookDelAny == \E hook \in HAddr : HookDel(hook)
RunHookAny == \E t \in HookTypes, beh \in Behaviours(hlive) : RunHook(t, beh)
\* The veto test with RunHookReturn*, the override test with
\* RunHookReturnInt*.
RunHookReturnAny ==
    \E t \in HookTypes, beh \in Behaviours(hlive) : RunHookReturn(t, "== HOOK_DENY", beh)
RunHookReturnIntAny ==
    \E t \in HookTypes, beh \in Behaviours(hlive) : RunHookReturnInt(t, "!= HOOK_CONTINUE", beh)

\* The hook table under each family of dispatch macros.
NextHooks ==
    \/ HookAddAny
    \/ HookDelAny
    \/ RunHookAny

SpecHooks == Init /\ [][NextHooks]_vars

NextHooksReturn ==
    \/ HookAddAny
    \/ HookDelAny
    \/ RunHookReturnAny

SpecHooksReturn == Init /\ [][NextHooksReturn]_vars

NextHooksReturnInt ==
    \/ HookAddAny
    \/ HookDelAny
    \/ RunHookReturnIntAny

SpecHooksReturnInt == Init /\ [][NextHooksReturnInt]_vars

\* ---------------------------------------------------------- callback table
\* The callback table as one value.
CbReg(m, l, r) == [cbmem |-> m, cblive |-> l, RCallbacks |-> r]
CurCbReg == CbReg(cbmem, cblive, RCallbacks)

\* The entries of a type that are not flagged willberemoved.
ActiveCallbacks(st, cbtype) ==
    {e \in st.cblive : st.cbmem[e].type = cbtype /\ st.cbmem[e].willberemoved = 0}

\* The entries flagged willberemoved.
Flagged(st) == {e \in st.cblive : st.cbmem[e].willberemoved = 1}

\* The entries of set es are destroyed.
cb_destroy(st, es) ==
    [st EXCEPT !.cbmem = [a \in CbAddr |-> IF a \in es THEN CbBlank ELSE @[a]],
               !.cblive = @ \ es]

\* The entries of set es are flagged willberemoved and stay allocated.
cb_flag(st, es) ==
    [st EXCEPT !.cbmem = [a \in CbAddr |->
                            IF a \in es THEN [@[a] EXCEPT !.willberemoved = 1] ELSE @[a]]]

\* CallbackAddMain: the new entry in cell a becomes the one in use for its
\* type.  An entry it replaces stays allocated and is flagged willberemoved
\* when keep holds, and is destroyed at once otherwise.
callback_add(st, a, module, cbtype, func, keep) ==
    LET old == ActiveCallbacks(st, cbtype)
        s1  == IF keep THEN cb_flag(st, old) ELSE cb_destroy(st, old)
    IN  [s1 EXCEPT !.cblive = @ \cup {a},
                   !.cbmem[a] = [CbBlank EXCEPT !.type = cbtype, !.func = func,
                                                !.owner = module],
                   !.RCallbacks[cbtype] = a]

\* The sweep of the callback table: every entry flagged willberemoved that
\* RCallbacks no longer refers to is destroyed.  A use of a callback is one
\* step, so no call is under way when the sweep runs.
callback_sweep(st) ==
    cb_destroy(st, {e \in Flagged(st) : \A t \in CbTypes : st.RCallbacks[t] # e})

InstallCallbacks(st) ==
    /\ cbmem' = st.cbmem
    /\ cblive' = st.cblive
    /\ RCallbacks' = st.RCallbacks

\* What the callback calls leave alone.
noncb == <<mem, live, mtaghandlers, mtag_handler, objects, errorcode, hookvars,
          mdvars, dbvars>>

\* During a rehash the entry replaced is kept and flagged.  What becomes of
\* an entry replaced while no rehash is in progress is not laid down: it is
\* either kept and flagged or destroyed at once.
CallbackAddMain(module, cbtype, func, keep) ==
    /\ status = "running"
    /\ Rehashing => keep
    /\ \E a \in CbAddr \ cblive :
          /\ \A b \in CbAddr \ cblive : a <= b
          /\ InstallCallbacks(callback_add(CurCbReg, a, module, cbtype, func, keep))
          /\ cblast' = CbCall("CallbackAdd", a, 0, "")
    /\ UNCHANGED <<noncb, ircd_rehashing, last, status>>

\* CallbackDel: the entry is no longer the one in use for its type, which
\* is left unset when it was; during a rehash the entry is flagged
\* willberemoved and stays allocated until the sweep, otherwise it is
\* destroyed at once.
CallbackDel(cb) ==
    /\ status = "running"
    /\ cb \in cblive
    /\ LET t  == cbmem[cb].type
           s1 == IF Rehashing THEN cb_flag(CurCbReg, {cb}) ELSE cb_destroy(CurCbReg, {cb})
       IN  InstallCallbacks(IF s1.RCallbacks[t] = cb
                            THEN [s1 EXCEPT !.RCallbacks[t] = NULL] ELSE s1)
    /\ cblast' = CbCall("CallbackDel", cb, 0, "")
    /\ UNCHANGED <<noncb, ircd_rehashing, last, status>>

\* The commit sweep of the callback table.
CallbackSweep ==
    /\ status = "running"
    /\ InstallCallbacks(callback_sweep(CurCbReg))
    /\ cblast' = CbCall("Sweep", NULL, 0, "")
    /\ UNCHANGED <<noncb, ircd_rehashing, last, status>>

\* CLOAK_KEYCRC with the test left out of account: always "nil".
CLOAK_KEYCRC_nil(st, stale) == [called |-> 0, value |-> "nil"]

\* CLOAK_KEYCRC: RCallbacks[CALLBACKTYPE_CLOAKKEYCSUM] != NULL ?
\* RCallbacks[CALLBACKTYPE_CLOAKKEYCSUM]->func.pcharfunc() : "nil".  The value
\* of a call is the string the function returns, "crc".  A call through a
\* pointer to a destroyed entry reads freed memory: stale is what the read
\* yields, a function that the memory still holds, which is then called,
\* or 0 when the read or the call is a fault.
CLOAK_KEYCRC(st, stale) ==
    LET cb == st.RCallbacks[CALLBACKTYPE_CLOAKKEYCSUM]
    IN  IF cb # NULL
        THEN IF cb \in st.cblive
             THEN [called |-> st.cbmem[cb].func, value |-> "crc"]
             ELSE IF stale # 0
             THEN [called |-> stale, value |-> "crc"]
             ELSE [called |-> 0, value |-> "fault"]
        ELSE [called |-> 0, value |-> "nil"]

\* A caller evaluates CLOAK_KEYCRC.
UseCloakKeyCrc ==
    /\ status = "running"
    /\ \E stale \in {0} \cup CbFuncs :
          LET r == CLOAK_KEYCRC(CurCbReg, stale)
          IN  /\ cblast' = CbCall("CLOAK_KEYCRC", NULL, r.called, r.value)
              /\ status' = IF r.value = "fault" THEN "undefined" ELSE "running"
    /\ UNCHANGED <<noncb, ircd_rehashing, last, cbmem, cblive, RCallbacks>>

NextCallbacks ==
    \/ \E module \in Modules \cup {NULL}, t \in CbTypes, f \in CbFuncs, keep \in BOOLEAN :
          CallbackAddMain(module, t, f, keep)
    \/ \E cb \in CbAddr : CallbackDel(cb)
    \/ RehashStart
    \/ RehashEnd
    \/ CallbackSweep
    \/ UseCloakKeyCrc

SpecCallbacks == Init /\ [][NextCallbacks]_vars

\* ------------------------------------------------------ ModData descriptors
\* The descriptors as one value.
MdReg(m, l) == [mdmem |-> m, mdlive |-> l]
CurMdReg == MdReg(mdmem, mdlive)

\* The slots that descriptors of the entity type hold, unloaded ones included.
UsedSlots(st, type) == {st.mdmem[d].slot : d \in {e \in st.mdlive : st.mdmem[e].type = type}}

\* The number of descriptors of the type taken for the next slot.
SlotByCount(st, type) ==
    LET n == Cardinality({e \in st.mdlive : st.mdmem[e].type = type})
    IN  IF n < MaxSlots THEN n ELSE -1

\* The next free slot index of the entity type, -1 when there is none.
NextFreeSlot(st, type) ==
    IF Slots \ UsedSlots(st, type) = {} THEN -1
    ELSE CHOOSE k \in Slots \ UsedSlots(st, type) :
            \A j \in Slots \ UsedSlots(st, type) : k <= j

\* The descriptor of the entity type that bears the name, or NULL.
findmoddata_byname(st, name, type) ==
    IF \E d \in st.mdlive : st.mdmem[d].name = name /\ st.mdmem[d].type = type
    THEN CHOOSE d \in st.mdlive : st.mdmem[d].name = name /\ st.mdmem[d].type = type
    ELSE NULL

\* What the ModData calls leave alone.
nonmd == <<mem, live, mtaghandlers, mtag_handler, objects, errorcode,
           ircd_rehashing, last, hookvars, cbvars, dbvars>>

\* Register: a name that has a descriptor for the entity type gets that
\* descriptor back, with its slot, and the descriptor is no longer unloaded;
\* otherwise a new descriptor gets the next free slot index; with no free
\* slot nothing is registered.
ModDataAdd(module, name, type) ==
    /\ status = "running"
    /\ LET d == findmoddata_byname(CurMdReg, name, type)
           k == NextFreeSlot(CurMdReg, type)
       IN  IF d # NULL
           THEN /\ mdmem' = [mdmem EXCEPT ![d].unloaded = 0, ![d].owner = module]
                /\ mdlast' = MdCall("ModDataAdd", NULL, d)
                /\ UNCHANGED mdlive
           ELSE IF k = -1
           THEN /\ mdlast' = MdCall("ModDataAdd", NULL, NULL)
                /\ UNCHANGED <<mdmem, mdlive>>
           ELSE \E a \in MdAddr \ mdlive :
                /\ \A b \in MdAddr \ mdlive : a <= b
                /\ mdmem' = [mdmem EXCEPT ![a] = [MdBlank EXCEPT !.name = name,
                                !.owner = module, !.type = type, !.slot = k]]
                /\ mdlive' = mdlive \cup {a}
                /\ mdlast' = MdCall("ModDataAdd", NULL, a)
    /\ UNCHANGED <<nonmd, status>>

\* Unregister: during a rehash the descriptor is marked unloaded and keeps
\* its slot; otherwise it is destroyed and its slot is free again.
ModDataDel(md) ==
    /\ status = "running"
    /\ md \in mdlive
    /\ IF Rehashing
       THEN /\ mdmem' = [mdmem EXCEPT ![md].unloaded = 1]
            /\ UNCHANGED mdlive
       ELSE /\ mdmem' = [mdmem EXCEPT ![md] = MdBlank]
            /\ mdlive' = mdlive \ {md}
    /\ mdlast' = MdCall("ModDataDel", md, NULL)
    /\ UNCHANGED <<nonmd, status>>

\* The commit sweep: every descriptor still marked unloaded is destroyed.
unload_all_unused_moddata ==
    /\ status = "running"
    /\ mdmem' = [a \in MdAddr |-> IF mdmem[a].unloaded = 1 THEN MdBlank ELSE mdmem[a]]
    /\ mdlive' = {d \in mdlive : mdmem[d].unloaded = 0}
    /\ mdlast' = MdCall("Sweep", NULL, NULL)
    /\ UNCHANGED <<nonmd, status>>

ModDataAddAny ==
    \E module \in Modules \cup {NULL}, name \in MdNames, type \in MdTypes :
        ModDataAdd(module, name, type)
ModDataDelAny == \E md \in MdAddr : ModDataDel(md)

NextModData ==
    \/ ModDataAddAny
    \/ ModDataDelAny
    \/ unload_all_unused_moddata
    \/ RehashStart
    \/ RehashEnd

SpecModData == Init /\ [][NextModData]_vars

\* ---------------------------------------------------------------- channeldb
\* Strings are sequences of character codes; the empty sequence stands for
\* a null pointer and for the empty string alike.
\* A Ban: the mask, who set it and when.
Ban(banstr, who, when) == [banstr |-> banstr, who |-> who, when |-> when]

\* A Channel: the fields channeldb saves.  modes is the mode string as
\* channel_modes gives it (modebuf), paras the mode parameters, one word
\* each; the three lists have their head first.
BlankChannel(chname) ==
    [chname |-> chname, creationtime |-> 0, topic |-> <<>>,
     topic_nick |-> <<>>, topic_time |-> 0, modes |-> <<>>, paras |-> <<>>,
     mode_lock |-> <<>>, banlist |-> <<>>, exlist |-> <<>>, invexlist |-> <<>>]

BanA == Ban(<<42, 33, 42, 64, 97>>, <<111, 112>>, 5)       \* "*!*@a" by "op"
BanB == Ban(<<42, 33, 42, 64, 98>>, <<115, 114, 118>>, 6)  \* "*!*@b" by "srv"

\* "#a": +klP with parameters "k" and "5", a topic, two bans and an invex.
ChanFull ==
    [BlankChannel(<<35, 97>>) EXCEPT
        !.creationtime = 10, !.topic = <<104, 105>>, !.topic_nick = <<111, 112>>,
        !.topic_time = 11, !.modes = <<43, 107, 108, 80>>,
        !.paras = << <<107>>, <<53>> >>,
        !.banlist = <<BanA, BanB>>, !.invexlist = <<BanB>>]

\* "#b": +P with a mode lock "nt", no topic and empty lists.
ChanEmpty ==
    [BlankChannel(<<35, 98>>) EXCEPT
        !.creationtime = 20, !.modes = <<43, 80>>, !.mode_lock = <<110, 116>>]

\* "#c": +n, not persistent, one ban.
ChanTransient ==
    [BlankChannel(<<35, 99>>) EXCEPT
        !.creationtime = 30, !.modes = <<43, 110>>, !.banlist = <<BanA>>]

SampleChannels == {ChanFull, ChanEmpty, ChanTransient}

\* The channel lists the server can hold: up to MaxChan different channels.
ChannelLists ==
    {cs \in UNION {[1..n -> SampleChannels] : n \in 0..MaxChan} :
        \A i, j \in DOMAIN cs : i # j => cs[i] # cs[j]}

\* has_channel_mode(channel, 'P')
has_channel_mode(channel, c) == \E i \in DOMAIN channel.modes : channel.modes[i] = c

\* The +P channels of a list, in list order.
PersistentOf(cs) == SelectSeq(cs, LAMBDA ch : has_channel_mode(ch, 80))

\* parabuf of channel_modes: the parameters separated by one space.
RECURSIVE JoinWords(_)
JoinWords(ws) ==
    IF ws = <<>> THEN <<>>
    ELSE IF Len(ws) = 1 THEN ws[1]
    ELSE ws[1] \o <<32>> \o JoinWords(Tail(ws))

\* The strtoken loop of set_channel_mode: the words of buf between spaces,
\* in order.  A word starts at a character that is no space and has a space
\* or nothing before it, and ends before the next space.
SplitWords(buf) ==
    LET n == Len(buf)
        starts == {i \in 1..n : buf[i] # 32 /\ (i = 1 \/ buf[i - 1] = 32)}
        stop(i) == CHOOSE j \in i..n :
                      /\ \A k \in i..j : buf[k] # 32
                      /\ (j = n \/ buf[j + 1] = 32)
        nth(k) == CHOOSE i \in starts : Cardinality({j \in starts : j < i}) = k - 1
    IN  IF starts = {} THEN <<>>
        ELSE [k \in 1..Cardinality(starts) |-> SubSeq(buf, nth(k), stop(nth(k)))]

\* What one write call puts in the file: a datum of w bytes (w = 4 or 8; v
\* holds the number) or a string behind its 2-byte length (w = 2; v holds
\* the characters).
Tok(w, v) == [w |-> w, v |-> v]
U32(n) == Tok(4, <<n>>)
I64(n) == Tok(8, <<n>>)
Str(x) == Tok(2, x)

\* write_listmode: the count, then entry, setter and time of each element
\* from the head on.
RECURSIVE ListEntries(_)
ListEntries(lst) ==
    IF lst = <<>> THEN <<>>
    ELSE <<Str(lst[1].banstr), Str(lst[1].who), I64(lst[1].when)>>
         \o ListEntries(Tail(lst))

write_listmode(lst) == <<U32(Len(lst))>> \o ListEntries(lst)

\* write_channel_entry: the write calls of one record, in order.
write_channel_entry(channel) ==
    <<U32(MAGIC_CHANNEL_START), Str(channel.chname), I64(channel.creationtime),
      Str(channel.topic), Str(channel.topic_nick), I64(channel.topic_time),
      Str(channel.modes), Str(JoinWords(channel.paras)), Str(channel.mode_lock)>>
    \o write_listmode(channel.banlist)
    \o write_listmode(channel.exlist)
    \o write_listmode(channel.invexlist)
    \o <<U32(MAGIC_CHANNEL_END)>>

RECURSIVE WriteEntries(_)
WriteEntries(cs) ==
    IF cs = <<>> THEN <<>>
    ELSE write_channel_entry(cs[1]) \o WriteEntries(Tail(cs))

\* Every write call of write_channeldb for the channel list cs, in order:
\* the version, the number of +P channels, and one record for each.
WriteCalls(cs) ==
    <<U32(CHANNELDB_VERSION), I64(Len(PersistentOf(cs)))>>
    \o WriteEntries(PersistentOf(cs))

\* The trace of n write calls that succeeded.
Writes(n) == [i \in 1..n |-> "write"]

\* What the channeldb calls leave alone.
nonmod == <<mtagvars, cbvars, mdvars>>
nondb == <<nonmod, hookvars, status>>

\* A save that renames the temporary file over the target whether or not
\* the writes and the close succeeded.
write_result_unchecked(fs, cs, w32, fail) ==
    LET img  == WriteCalls(cs)
        n    == Len(img)
        done == IF fail \in 2..(n + 1) THEN fail - 2 ELSE n
    IN  [ret |-> IF fail = 0 THEN 1 ELSE 0,
         files |-> [fs EXCEPT !.db = SubSeq(img, 1, done), !.tmp = NoFile],
         trace |-> <<"fopen">> \o Writes(done)
                   \o (IF done < n THEN <<"write!">> ELSE <<>>)
                   \o <<"fclose", "rename">>]

\* The outcome of write_channeldb on the files fs when input/output call
\* number fail fails (0: none does).  The calls are numbered in order:
\* fopen of the temporary file, the write calls, fclose, rename; unlink of
\* the target, which the _WIN32 build makes before the rename, has its
\* result ignored.
write_result(fs, cs, w32, fail) ==
    LET img == WriteCalls(cs)
        n   == Len(img)
    IN  IF fail = 1
        THEN [ret |-> 0, files |-> fs, trace |-> <<"fopen!">>]
        ELSE IF fail \in 2..(n + 1)
        THEN [ret |-> 0,
              files |-> [fs EXCEPT !.tmp = SubSeq(img, 1, fail - 2)],
              trace |-> <<"fopen">> \o Writes(fail - 2) \o <<"write!", "fclose">>]
        ELSE IF fail = n + 2
        THEN [ret |-> 0,
              files |-> [fs EXCEPT !.tmp = img],
              trace |-> <<"fopen">> \o Writes(n) \o <<"fclose!">>]
        ELSE LET unlinked == IF w32 THEN [fs EXCEPT !.db = NoFile] ELSE fs
                 pre == <<"fopen">> \o Writes(n) \o <<"fclose">>
                        \o (IF w32 THEN <<"unlink">> ELSE <<>>)
             IN  IF fail = n + 3
                 THEN [ret |-> 0,
                       files |-> [unlinked EXCEPT !.tmp = img],
                       trace |-> pre \o <<"rename!">>]
                 ELSE [ret |-> 1,
                       files |-> [unlinked EXCEPT !.db = img, !.tmp = NoFile],
                       trace |-> pre \o <<"rename">>]

\* write_channeldb(), as the save event and MOD_UNLOAD call it.
write_channeldb(fail) ==
    /\ status = "running"
    /\ fail \in 0..(Len(WriteCalls(channels)) + 3)
    /\ LET r == write_result(dbfiles, channels, win32, fail)
       IN  /\ files' = [files EXCEPT ![cfg.database] = r.files]
           /\ dblast' = DbCall("write", r.ret, r.trace, 0, 0, FALSE)
    /\ UNCHANGED <<nondb, win32, cfg, channels, channeldb_loaded, persistent,
                   modstate>>

\* read_data / read_str at token pos + 1 of file f succeeds when the file
\* holds a datum of that width there.
CanRead(f, pos, w) == pos < Len(f) /\ f[pos + 1].w = w

\* The loop of read_listmode on *lst with left elements still to read: each
\* element read whole is put in front of the list; a read that fails ends
\* the loop with what was linked so far.
RECURSIVE ReadBans(_, _, _, _)
ReadBans(f, pos, lst, left) ==
    IF left = 0 THEN [ok |-> TRUE, pos |-> pos, lst |-> lst]
    ELSE IF ~CanRead(f, pos, 2) THEN [ok |-> FALSE, pos |-> pos, lst |-> lst]
    ELSE IF ~CanRead(f, pos + 1, 2) THEN [ok |-> FALSE, pos |-> pos + 1, lst |-> lst]
    ELSE IF ~CanRead(f, pos + 2, 8) THEN [ok |-> FALSE, pos |-> pos + 2, lst |-> lst]
    ELSE ReadBans(f, pos + 3,
                  <<Ban(f[pos + 1].v, f[pos + 2].v, f[pos + 3].v[1])>> \o lst,
                  left - 1)

\* read_listmode(fd, lst)
read_listmode(f, pos, lst) ==
    IF ~CanRead(f, pos, 4) THEN [ok |-> FALSE, pos |-> pos, lst |-> lst]
    ELSE ReadBans(f, pos + 1, lst, f[pos + 1].v[1])

\* The place of the channel named chname in the list, 0 when there is none.
ChannelIndex(cs, chname) ==
    IF \E i \in DOMAIN cs : cs[i].chname = chname
    THEN CHOOSE i \in DOMAIN cs : cs[i].chname = chname
    ELSE 0

\* get_channel(&me, chname, CREATE): the channel of that name, made and put
\* at the head of the list when there is none.
get_channel(cs, chname) ==
    IF ChannelIndex(cs, chname) # 0 THEN cs ELSE <<BlankChannel(chname)>> \o cs

\* strlcpy(dst, src, size): at most size - 1 characters of src arrive.
strlcpy(src, size) == IF Len(src) < size THEN src ELSE SubSeq(src, 1, size - 1)

\* myparv as lines 485-489 fill it: the mode string, then the words of the
\* first BufLen - 1 characters of the parameter string.
myparv(modes, parameters) ==
    <<modes>> \o SplitWords(strlcpy(parameters, BufLen))

\* The array has MyParvLen elements and the loop no bound: the closing NULL
\* of line 490 goes to element myparc, which the array has only while
\* myparc < MyParvLen.
Overrun(parv) == Len(parv) >= MyParvLen

\* do_mode(channel, &me, NULL, myparc, myparv, 0, 0): the mode string
\* parv[1] and the parameters that follow it are set on the channel.
do_mode(channel, parv) == [channel EXCEPT !.modes = parv[1], !.paras = Tail(parv)]

\* set_channel_mode(channel, modes, parameters): the mode string and the
\* words of the parameter string are handed to do_mode; ub says that the
\* stores went past the end of myparv.
set_channel_mode(channel, modes, parameters) ==
    LET parv == myparv(modes, parameters)
    IN  [channel |-> do_mode(channel, parv), ub |-> Overrun(parv)]

\* A marker test that accepts any value.
MarkerAny(magic, expected) == TRUE

\* magic != MAGIC_CHANNEL_START, magic != MAGIC_CHANNEL_END: the marker read
\* is the one expected.
MarkerOk(magic, expected) == magic = expected

\* What read_channeldb leaves behind: the value returned, the channel list,
\* the tokens consumed, the records counted and whether the count was
\* reported ("Added %d persistent channels"), and the calls made on the
\* file handle after the reads that succeeded (io); ub says that a call of
\* set_channel_mode on the way stored past the end of myparv.
ReadOut(ret, cs, pos, added, reported, io) ==
    [ret |-> ret, channels |-> cs, pos |-> pos, added |-> added,
     reported |-> reported, io |-> io, ub |-> FALSE]

\* A failing read that returns 0 and leaves the file open.
R_SAFE_unclosed(cs, pos, added) == ReadOut(0, cs, pos, added, FALSE, <<"read!">>)

\* R_SAFE of read_channeldb (lines 357-365) when the read fails: the file
\* is closed and 0 is returned.
R_SAFE(cs, pos, added) == ReadOut(0, cs, pos, added, FALSE, <<"read!", "fclose">>)

\* The end of read_channeldb after the loop (lines 463-472).
ReadDone(cs, pos, added) == ReadOut(1, cs, pos, added, added > 0, <<"fclose">>)

\* A marker mismatch handled as a read error: the file is closed and 0 is
\* returned.
BreakFails(cs, pos, added) == ReadOut(0, cs, pos, added, FALSE, <<"fclose">>)

\* break (lines 432 and 459): a marker that does not match leaves the loop
\* for the end of the function.
Break(cs, pos, added) == ReadDone(cs, pos, added)

\* The outcome out of the rest of a load during which a call had undefined
\* behaviour (ub).
Undefined(ub, out) == IF ub THEN [out EXCEPT !.ub = TRUE] ELSE out

\* The loop of read_channeldb (lines 415-461) from record i of count, at
\* token pos, with the channel list cs.  A read that fails returns 0 at
\* once (R_SAFE); a marker that does not match leaves the loop.
RECURSIVE ReadRecords(_, _, _, _, _, _)
ReadRecords(f, pos, cs, i, count, added) ==
    IF i > count THEN ReadDone(cs, pos, added)
    ELSE IF ~CanRead(f, pos, 4) THEN R_SAFE(cs, pos, added)
    ELSE IF ~MarkerOk(f[pos + 1].v[1], MAGIC_CHANNEL_START)
    THEN Break(cs, pos + 1, added)
    ELSE IF ~CanRead(f, pos + 1, 2) THEN R_SAFE(cs, pos + 1, added)
    ELSE IF ~CanRead(f, pos + 2, 8) THEN R_SAFE(cs, pos + 2, added)
    ELSE IF ~CanRead(f, pos + 3, 2) THEN R_SAFE(cs, pos + 3, added)
    ELSE IF ~CanRead(f, pos + 4, 2) THEN R_SAFE(cs, pos + 4, added)
    ELSE IF ~CanRead(f, pos + 5, 8) THEN R_SAFE(cs, pos + 5, added)
    ELSE IF ~CanRead(f, pos + 6, 2) THEN R_SAFE(cs, pos + 6, added)
    ELSE IF ~CanRead(f, pos + 7, 2) THEN R_SAFE(cs, pos + 7, added)
    ELSE IF ~CanRead(f, pos + 8, 2) THEN R_SAFE(cs, pos + 8, added)
    ELSE
      LET chname == f[pos + 2].v
          cs1 == get_channel(cs, chname)
          k   == ChannelIndex(cs1, chname)
          sm  == set_channel_mode(
                    [cs1[k] EXCEPT !.creationtime = f[pos + 3].v[1],
                                   !.topic = f[pos + 4].v,
                                   !.topic_nick = f[pos + 5].v,
                                   !.topic_time = f[pos + 6].v[1],
                                   !.mode_lock = f[pos + 9].v],
                    f[pos + 7].v, f[pos + 8].v)
          ch1 == sm.channel
          b   == read_listmode(f, pos + 9, ch1.banlist)
          ch2 == [ch1 EXCEPT !.banlist = b.lst]
          e   == read_listmode(f, b.pos, ch2.exlist)
          ch3 == [ch2 EXCEPT !.exlist = e.lst]
          v   == read_listmode(f, e.pos, ch3.invexlist)
          ch4 == [ch3 EXCEPT !.invexlist = v.lst]
      IN  Undefined(sm.ub,
            IF ~b.ok THEN R_SAFE([cs1 EXCEPT ![k] = ch2], b.pos, added)
            ELSE IF ~e.ok THEN R_SAFE([cs1 EXCEPT ![k] = ch3], e.pos, added)
            ELSE IF ~v.ok THEN R_SAFE([cs1 EXCEPT ![k] = ch4], v.pos, added)
            ELSE IF ~CanRead(f, v.pos, 4)
            THEN R_SAFE([cs1 EXCEPT ![k] = ch4], v.pos, added)
            ELSE IF ~MarkerOk(f[v.pos + 1].v[1], MAGIC_CHANNEL_END)
            THEN Break([cs1 EXCEPT ![k] = ch4], v.pos + 1, added + 1)
            ELSE ReadRecords(f, v.pos + 1, [cs1 EXCEPT ![k] = ch4], i + 1, count,
                             added + 1))

\* A missing database reported as a failure.
NoDatabaseFails(cs) == ReadOut(0, cs, 0, 0, FALSE, <<>>)

\* errno == ENOENT (lines 394-398): there is no database yet, which is no
\* error.
NoDatabase(cs) == ReadOut(1, cs, 0, 0, FALSE, <<>>)

\* A version test that lets every version pass.
AnyVersion(version) == FALSE

\* if (version > channeldb_version), line 406
WrongVersion(version) == version > CHANNELDB_VERSION

\* read_channeldb() on the database file f and the channel list cs; openerr
\* says that fopen fails for a reason other than ENOENT.
read_result(f, cs, openerr) ==
    IF openerr THEN ReadOut(0, cs, 0, 0, FALSE, <<>>)
    ELSE IF f = NoFile THEN NoDatabase(cs)
    ELSE IF ~CanRead(f, 0, 4) THEN R_SAFE(cs, 0, 0)
    ELSE IF WrongVersion(f[1].v[1])
    THEN ReadOut(0, cs, 1, 0, FALSE, <<"fclose">>)
    ELSE IF ~CanRead(f, 1, 8) THEN R_SAFE(cs, 1, 0)
    ELSE ReadRecords(f, 2, cs, 1, f[2].v[1], 0)

\* The calls read_channeldb makes on the file: the fopen, then those of io.
ReadTrace(f, openerr, io) ==
    (IF openerr THEN <<"fopen!">>
     ELSE IF f = NoFile THEN <<"fopen?">>
     ELSE <<"fopen">>) \o io

\* What a store past the end of myparv can lead to: the process goes on as
\* if the array had been long enough, or it is killed.
Outcomes(ub) == IF ub THEN {"running", "undefined"} ELSE {"running"}

\* read_channeldb(), as MOD_LOAD calls it; the loads of a process are
\* counted up to MaxReads.
read_channeldb(openerr) ==
    /\ status = "running"
    /\ modstate.reads < MaxReads
    /\ LET r == read_result(dbfiles.db, channels, openerr)
       IN  /\ channels' = r.channels
           /\ status' \in Outcomes(r.ub)
           /\ dblast' = IF status' = "undefined" THEN DbNone("undefined")
                        ELSE DbCall("read", r.ret,
                                    ReadTrace(dbfiles.db, openerr, r.io),
                                    r.pos, r.added, r.reported)
    /\ modstate' = [modstate EXCEPT !.reads = @ + 1]
    /\ UNCHANGED <<nonmod, hookvars, win32, files, cfg, channeldb_loaded,
                   persistent>>

\* Users create, change and destroy channels.
SetChannels(cs) ==
    /\ status = "running"
    /\ channels # cs
    /\ channels' = cs
    /\ dblast' = DbNone("channels")
    /\ UNCHANGED <<nondb, win32, files, cfg, channeldb_loaded, persistent,
                   modstate>>

\* A sequence back to front.
Reverse(q) == [i \in 1..Len(q) |-> q[Len(q) + 1 - i]]

\* The channel list a save of which gives the file f, if there is one: the
\* channels a load of f into an empty server makes, in the order of the
\* file, each list in the order of the file.
Unread(f) ==
    LET r == read_result(f, <<>>, FALSE)
    IN  Reverse([i \in DOMAIN r.channels |->
                    [r.channels[i] EXCEPT !.banlist = Reverse(@),
                                          !.exlist = Reverse(@),
                                          !.invexlist = Reverse(@)]])

\* The database file is as a save left it.
Intact == dbfiles.db # NoFile /\ dbfiles.db = WriteCalls(Unread(dbfiles.db))

\* A value that is neither marker (0x33333333).
BadMagic == 858993459

\* A token that is a marker of a record.
IsMarker(t) == t.w = 4 /\ t.v[1] \in {MAGIC_CHANNEL_START, MAGIC_CHANNEL_END}

WriteAny == \E fail \in 0..(Len(WriteCalls(channels)) + 3) : write_channeldb(fail)
ReadAny == \E openerr \in BOOLEAN : read_channeldb(openerr)
SetChannelsAny == \E cs \in ChannelLists : SetChannels(cs)

\* Saves that may fail at any call, on both builds.
NextChanneldb ==
    \/ SetChannelsAny
    \/ WriteAny


\* A save during which no call fails.
SaveOk == write_channeldb(0)

\* Saves that succeed and loads of what they left.
NextRoundTrip ==
    \/ SetChannelsAny
    \/ SaveOk
    \/ ReadAny


\* The database file is one that another release of the module wrote: its
\* version field holds version, the rest is as a save leaves it.
OtherVersion(version) ==
    /\ status = "running"
    /\ Intact
    /\ version # CHANNELDB_VERSION
    /\ files' = [files EXCEPT ![cfg.database].db[1] = U32(version)]
    /\ dblast' = DbNone("version")
    /\ UNCHANGED <<nondb, win32, cfg, channels, channeldb_loaded, persistent,
                   modstate>>

OtherVersionAny ==
    \E version \in {CHANNELDB_VERSION - 1, CHANNELDB_VERSION + 1} : OtherVersion(version)

\* Saves that succeed, databases of other versions, and loads of them.
NextVersions ==
    \/ SetChannelsAny
    \/ SaveOk
    \/ OtherVersionAny
    \/ ReadAny


\* ------------------------------------------------- channeldb entry points
\* modinfo->handle: the module under which the manager loaded channeldb.
modinfo == CHOOSE m \in Modules : TRUE

\* The module image is loaded into the process (its static variables have
\* their initial values) and MOD_TEST runs: it zeroes cfg and registers
\* the handler of HOOKTYPE_CONFIGTEST with priority 0.
MOD_TEST ==
    /\ status = "running"
    /\ modstate.phase = "none"
    /\ channeldb_loaded' = 0
    /\ cfg' = [database |-> NoPath]
    /\ HookAddMain(modinfo, HOOKTYPE_CONFIGTEST, 0, channeldb_configtest_ptr)
    /\ modstate' = [modstate EXCEPT !.phase = "tested"]
    /\ dblast' = DbCall("MOD_TEST", MOD_SUCCESS, <<>>, 0, 0, FALSE)
    /\ UNCHANGED <<nonmod, status, win32, files, channels, persistent>>

\* LoadPersistentInt(modinfo, var): the value saved under the name, when
\* there is one; var is left alone otherwise.
LoadPersistentInt(saved, var) == IF saved # -1 THEN saved ELSE var

\* setcfg(): cfg.database is the default path.
setcfg == [database |-> DefaultPath]

\* freecfg(): safe_free leaves a null pointer.
freecfg == [database |-> NoPath]

\* MOD_INIT: the flag saved by an earlier image is taken over, cfg gets
\* its defaults and the handler of HOOKTYPE_CONFIGRUN is registered with
\* priority 0.
MOD_INIT ==
    /\ status = "running"
    /\ modstate.phase = "tested"
    /\ channeldb_loaded' = LoadPersistentInt(persistent, channeldb_loaded)
    /\ cfg' = setcfg
    /\ HookAddMain(modinfo, HOOKTYPE_CONFIGRUN, 0, channeldb_configrun_ptr)
    /\ modstate' = [modstate EXCEPT !.phase = "inited"]
    /\ dblast' = DbCall("MOD_INIT", MOD_SUCCESS, <<>>, 0, 0, FALSE)
    /\ UNCHANGED <<nonmod, status, win32, files, channels, persistent>>

\* A first-load test that always says "not loaded yet".
NeverLoaded(loaded) == TRUE

\* if (!channeldb_loaded)
NotLoadedYet(loaded) == loaded = 0

\* rename(cfg.database, fname) of MOD_LOAD (line 101) on the files fs; the
\* rename fails when renerr says so and when there is no database.
RenameFails(fs, renerr) == renerr \/ fs.db = NoFile
RenameCorrupt(fs, renerr) ==
    IF RenameFails(fs, renerr) THEN fs
    ELSE [fs EXCEPT !.corrupt = fs.db, !.db = NoFile]

\* A load that fails when the database could not be read.
LoadReturnStrict(readok, evterr) ==
    IF evterr \/ ~readok THEN MOD_FAILED ELSE MOD_SUCCESS

\* What MOD_LOAD returns (lines 108-113): MOD_FAILED when an error code is
\* set on the module after EventAdd, MOD_SUCCESS otherwise, whatever
\* read_channeldb returned.
LoadReturn(readok, evterr) == IF evterr THEN MOD_FAILED ELSE MOD_SUCCESS

\* EventAdd of the periodic save (line 107) in the trace.
EventAdd(evterr) == IF evterr THEN <<"EventAdd!">> ELSE <<"EventAdd">>

\* MOD_LOAD: on the first load the database is read; when that fails the
\* file is renamed to <database>.corrupt (renerr: that rename fails).
\* evterr says that an error code is set on the module when EventAdd
\* returns.
MOD_LOAD(openerr, renerr, evterr) ==
    /\ status = "running"
    /\ modstate.phase = "inited"
    /\ IF NotLoadedYet(channeldb_loaded)
       THEN LET r == read_result(dbfiles.db, channels, openerr)
            IN  /\ modstate.reads < MaxReads
                /\ channels' = r.channels
                /\ status' \in Outcomes(r.ub)
                /\ files' = IF r.ret = 0
                            THEN [files EXCEPT ![cfg.database] =
                                                RenameCorrupt(dbfiles, renerr)]
                            ELSE files
                /\ channeldb_loaded' = 1
                /\ modstate' = [modstate EXCEPT !.phase = "loaded",
                                                !.reads = @ + 1]
                /\ dblast' = IF status' = "undefined" THEN DbNone("undefined")
                             ELSE DbCall("MOD_LOAD", LoadReturn(r.ret # 0, evterr),
                                         ReadTrace(dbfiles.db, openerr, r.io)
                                         \o (IF r.ret # 0 THEN <<>>
                                             ELSE IF RenameFails(dbfiles, renerr)
                                             THEN <<"rename!">> ELSE <<"rename">>)
                                         \o EventAdd(evterr),
                                         r.pos, r.added, r.reported)
       ELSE /\ ~openerr /\ ~renerr
            /\ modstate' = [modstate EXCEPT !.phase = "loaded"]
            /\ dblast' = DbCall("MOD_LOAD", LoadReturn(TRUE, evterr),
                                EventAdd(evterr), 0, 0, FALSE)
            /\ UNCHANGED <<channels, files, channeldb_loaded, status>>
    /\ UNCHANGED <<nonmod, hookvars, win32, cfg, persistent>>

\* MOD_UNLOAD: the database is saved, whatever the save returns (call
\* number fail of the save fails), cfg is freed and the flag is handed to
\* SavePersistentInt; the unloads of a process are counted up to
\* MaxUnloads.
MOD_UNLOAD(fail) ==
    /\ status = "running"
    /\ modstate.phase = "loaded"
    /\ modstate.unloads < MaxUnloads
    /\ fail \in 0..(Len(WriteCalls(channels)) + 3)
    /\ LET r == write_result(dbfiles, channels, win32, fail)
       IN  /\ files' = [files EXCEPT ![cfg.database] = r.files]
           /\ dblast' = DbCall("MOD_UNLOAD", MOD_SUCCESS, r.trace, 0, 0, FALSE)
    /\ cfg' = freecfg
    /\ persistent' = channeldb_loaded
    /\ modstate' = [modstate EXCEPT !.phase = "unloaded", !.unloads = @ + 1]
    /\ UNCHANGED <<nondb, win32, channels, channeldb_loaded>>

\* The hook table without the entries that module owns.
RECURSIVE DelHooksOf(_, _)
DelHooksOf(st, module) ==
    LET own == {h \in st.hlive : st.hmem[h].owner = module}
    IN  IF own = {} THEN st
        ELSE DelHooksOf(hook_del(st, CHOOSE h \in own : \A g \in own : h <= g), module)

\* The module manager releases the image: after MOD_UNLOAD, or without it
\* when the image was tested or initialised but never loaded (the
\* configuration was rejected).  Every hook the module owns is removed.
Discard ==
    /\ status = "running"
    /\ modstate.phase \in {"tested", "inited", "unloaded"}
    /\ InstallHooks(DelHooksOf(CurHReg, modinfo))
    /\ horder' = SelectSeq(horder, LAMBDA y : hmem[y].owner # modinfo)
    /\ hlast' = HCall("Unload", 0, "", NULL, <<>>, <<>>, FALSE, 0, FALSE, FALSE)
    /\ modstate' = [modstate EXCEPT !.phase = "none"]
    /\ dblast' = DbNone("discard")
    /\ UNCHANGED <<nonmod, status, win32, files, cfg, channels,
                   channeldb_loaded, persistent>>

\* A ConfigEntry: its name (ce_varname) and its sub-entries (ce_entries),
\* each a name with a value (ce_vardata).
ConfigEntry(varname, entries) == [ce_varname |-> varname, ce_entries |-> entries]
Directive(varname, vardata) == [ce_varname |-> varname, ce_vardata |-> vardata]

\* Stands for the null pointer as ce.
NullEntry == ConfigEntry(<<>>, <<>>)

\* The loop of channeldb_configrun over the sub-entries (lines 184-188):
\* cfg.database after it, when it was database before; the value of every
\* entry named "database" is stored in turn.
RECURSIVE ConfigDatabase(_, _)
ConfigDatabase(entries, database) ==
    IF entries = <<>> THEN database
    ELSE ConfigDatabase(Tail(entries),
                        IF entries[1].ce_varname
                               = <<100, 97, 116, 97, 98, 97, 115, 101>>
                        THEN entries[1].ce_vardata ELSE database)

\* Whether channeldb_configrun takes the block: a set block (type) named
\* "channeldb" (lines 178-182).
ConfigTaken(ce, type) ==
    /\ type = CONFIG_SET
    /\ ce # NullEntry
    /\ ce.ce_varname = <<99, 104, 97, 110, 110, 101, 108, 100, 98>>

\* channeldb_configrun(cf, ce, type), as the configuration code calls it
\* for a block of the configuration through the hook that MOD_INIT
\* registered, between MOD_INIT and MOD_LOAD.
channeldb_configrun(ce, type) ==
    /\ status = "running"
    /\ modstate.phase = "inited"
    /\ \E h \in hlive : /\ hmem[h].type = HOOKTYPE_CONFIGRUN
                        /\ hmem[h].func = channeldb_configrun_ptr
    /\ cfg' = IF ConfigTaken(ce, type)
              THEN [cfg EXCEPT !.database = ConfigDatabase(ce.ce_entries, @)]
              ELSE cfg
    /\ dblast' = DbCall("channeldb_configrun",
                        IF ConfigTaken(ce, type) THEN 1 ELSE 0, <<>>, 0, 0, FALSE)
    /\ UNCHANGED <<nondb, win32, files, channels, channeldb_loaded, persistent,
                   modstate>>

\* The blocks of a configuration that passed the test: set::channeldb with
\* a database directive, with two, with none, a set block of another name,
\* and no entry at all.
ConfigBlocks ==
    {ConfigEntry(<<99, 104, 97, 110, 110, 101, 108, 100, 98>>, ds) :
        ds \in {<<>>,
                <<Directive(<<100, 97, 116, 97, 98, 97, 115, 101>>, OtherPath)>>,
                <<Directive(<<100, 97, 116, 97, 98, 97, 115, 101>>, DefaultPath)>>,
                <<Directive(<<100, 97, 116, 97, 98, 97, 115, 101>>, DefaultPath),
                  Directive(<<100, 97, 116, 97, 98, 97, 115, 101>>, OtherPath)>>}}
    \cup {ConfigEntry(<<109, 111, 100, 101, 115>>,
                      <<Directive(<<100, 97, 116, 97, 98, 97, 115, 101>>, OtherPath)>>),
          NullEntry}

LoadAny == \E openerr, renerr, evterr \in BOOLEAN : MOD_LOAD(openerr, renerr, evterr)
UnloadModAny == \E fail \in 0..(Len(WriteCalls(channels)) + 3) : MOD_UNLOAD(fail)
ConfigRunAny ==
    \E ce \in ConfigBlocks, type \in {CONFIG_MAIN, CONFIG_SET} :
        channeldb_configrun(ce, type)

NextLifecycle ==
    \/ SetChannelsAny
    \/ MOD_TEST
    \/ MOD_INIT
    \/ ConfigRunAny
    \/ LoadAny
    \/ UnloadModAny
    \/ Discard

SpecLifecycle == Init /\ [][NextLifecycle]_vars

\* The database files a process may find when it starts: those a save of
\* an earlier run left, whole, cut short, with a marker overwritten or
\* written by a newer release.
SavedFiles == {WriteCalls(cs) : cs \in ChannelLists}
CutFiles == UNION {{SubSeq(f, 1, k) : k \in 0..(Len(f) - 1)} : f \in SavedFiles}
BadMarkerFiles ==
    UNION {{[f EXCEPT ![k] = U32(BadMagic)] : k \in {j \in 3..Len(f) : IsMarker(f[j])}}
           : f \in SavedFiles}
NewerFiles == {[f EXCEPT ![1] = U32(CHANNELDB_VERSION + 1)] : f \in SavedFiles}

\* A database from elsewhere whose record has as many mode parameters as
\* fill myparv to its last element.
ManyWordsFiles ==
    {WriteCalls(<<[ChanEmpty EXCEPT !.paras = [i \in 1..(MyParvLen - 1) |-> <<53>>]]>>)}

\* What the process may find at the other path: nothing, or the save of
\* "#a" and "#b".
OtherFiles == {NoFile, WriteCalls(<<ChanFull, ChanEmpty>>)}

\* What a process can find on disk at its start: one of those files, or
\* none, at the default path, and one of others at the other path.
FoundFiles(others) ==
    {[p \in Paths |-> [NoFiles EXCEPT !.db = IF p = DefaultPath THEN f ELSE g]] :
        f \in {NoFile} \cup SavedFiles \cup CutFiles \cup BadMarkerFiles
               \cup NewerFiles \cup ManyWordsFiles,
        g \in others}

\* The process has started with no channel and finds such files; no image
\* of channeldb was loaded yet (cfg is zero).
InitFirstLoad ==
    /\ InitHooks
    /\ InitRegistries
    /\ win32 = FALSE
    /\ files \in FoundFiles(OtherFiles)
    /\ cfg = [database |-> NoPath]
    /\ channels = <<>>
    /\ channeldb_loaded = 0
    /\ persistent = -1
    /\ modstate = [phase |-> "none", reads |-> 0, unloads |-> 0]
    /\ dblast = DbNone("Init")

\* The state in which MOD_TEST and MOD_INIT of the first image of channeldb
\* leave a process of one of builds that found one of found on disk: cfg
\* holds the defaults of setcfg, the two configuration hooks are
\* registered (the table is what the HookAdd of MOD_TEST and the HookAdd of
\* MOD_INIT make of an empty one), no channel exists and no database was
\* read.
InitInited(builds, found) ==
    /\ InitRegistries
    /\ LET none  == HReg([a \in HAddr |-> HBlank], {},
                         [t \in HookTypes \cup ConfigHookTypes |-> NULL], FALSE)
           test  == hook_add(none, 1, modinfo, HOOKTYPE_CONFIGTEST, 0,
                             channeldb_configtest_ptr)
           hooks == hook_add(test, 2, modinfo, HOOKTYPE_CONFIGRUN, 0,
                             channeldb_configrun_ptr)
       IN  /\ hmem = hooks.hmem
           /\ hlive = hooks.hlive
           /\ Hooks = hooks.Hooks
    /\ horder = <<1, 2>>
    /\ hlast = HCall("HookAdd", HOOKTYPE_CONFIGRUN, "", 2, <<>>, <<>>, FALSE, 0,
                     FALSE, FALSE)
    /\ win32 \in builds
    /\ files \in found
    /\ cfg = setcfg
    /\ channels = <<>>
    /\ channeldb_loaded = 0
    /\ persistent = -1
    /\ modstate = [phase |-> "inited", reads |-> 0, unloads |-> 0]
    /\ dblast = DbCall("MOD_INIT", MOD_SUCCESS, <<>>, 0, 0, FALSE)

\* That state with no file on disk, in a build without _WIN32.
InitConfigured == InitInited({FALSE}, {[p \in Paths |-> NoFiles]})

\* The same in either build.
InitBuilds == InitInited(BOOLEAN, {[p \in Paths |-> NoFiles]})

\* That state in a process that found a file, or none, at the default path.
InitDefault == InitInited({FALSE}, FoundFiles({NoFile}))

SpecChanneldb == InitBuilds /\ [][NextChanneldb]_vars

SpecRoundTrip == InitConfigured /\ [][NextRoundTrip]_vars

SpecVersions == InitConfigured /\ [][NextVersions]_vars

\* The cycles of the module in a process that found such a file.
NextFirstLoad ==
    \/ MOD_TEST
    \/ MOD_INIT
    \/ ConfigRunAny
    \/ LoadAny
    \/ UnloadModAny
    \/ Discard

SpecFirstLoad == InitFirstLoad /\ [][NextFirstLoad]_vars

\* Loads of such a file and saves that may fail at any call: every path
\* through read_channeldb and write_channeldb.
NextHandles ==
    \/ WriteAny
    \/ ReadAny

SpecHandles == InitDefault /\ [][NextHandles]_vars

\* Loads of such a file into a server whose users create and destroy
\* channels, and saves that succeed.
SpecRecover == InitDefault /\ [][NextRoundTrip]_vars

TypeOK ==
    /\ live \subseteq Addr
    /\ mtaghandlers \in Addr \cup {NULL}
    /\ status \in {"running", "aborted", "hung", "undefined"}

\* ------------------------------------------------- vocabulary of the claims
\* Two names are the same name when they are equal ignoring case.
Lower(name) == [i \in 1..Len(name) |-> IF name[i] \in 65..90 THEN name[i] + 32 ELSE name[i]]
SameName(x, y) == Lower(x) = Lower(y)

\* The entries of the registry: the handlers that exist (allocated, not
\* freed); the active ones are those not marked unloaded.
Entries == live
Active(e) == e \in live /\ mem[e].unloaded = 0
Unloaded(e) == e \in live /\ mem[e].unloaded = 1

\* The cells met by following next from the head, in order, up to the first
\* cell met twice or freed.
RECURSIVE Chain(_, _)
Chain(m, acc) ==
    IF m = NULL \/ m \notin live \/ Len(acc) > MaxObj THEN acc
    ELSE Chain(mem[m].next, Append(acc, m))

ListCells == Chain(mtaghandlers, <<>>)
Range(f) == {f[i] : i \in DOMAIN f}

\* The list ends at NULL, visits live cells only and none of them twice.
ListAcyclic ==
    /\ Len(ListCells) <= MaxObj
    /\ \A i, j \in DOMAIN ListCells : i # j => ListCells[i] # ListCells[j]
    /\ (ListCells = <<>> => mtaghandlers = NULL)
    /\ (ListCells # <<>> => mem[ListCells[Len(ListCells)]].next = NULL)

\* The capability <-> handler links of entry e point at each other.
LinksIntact(e) ==
    mem[e].clicap_handler # NULL => mtag_handler[mem[e].clicap_handler] = e

\* C1  After any sequence of Add, Del, rehash start/end and sweep calls, no
\* two active entries bear the same name (names compared ignoring case).
C1_UniqueActiveName ==
    status = "running" =>
        \A e1, e2 \in Entries :
            (e1 # e2 /\ Active(e1) /\ Active(e2)) => ~SameName(mem[e1].name, mem[e2].name)

\* C2  An Add that revives an entry marked unloaded returns that very entry,
\* and afterwards the registry list holds every entry exactly once and the
\* capability <-> handler links of the entry are intact.
C2_RevivePreservesIdentity ==
    (status = "running" /\ last.op = "Add" /\ last.m # NULL /\ last.ret # NULL) =>
        /\ last.ret = last.m
        /\ ListAcyclic
        /\ Range(ListCells) = Entries
        /\ LinksIntact(last.ret)

\* C3  An entry marked unloaded is never handed out by Find as active, and
\* a commit sweep that returns has freed exactly the entries that were
\* marked unloaded when it ran.
C3_TwoPhaseDelete ==
    [][/\ (last'.op = "Find" /\ status' = "running" /\ Unloaded(last'.ret))
            => mem'[last'.ret].unloaded = 1
       /\ (last'.op = "Sweep" /\ status' = "running")
            => live' = {e \in live : ~Unloaded(e)}]_vars

\* C4  Del outside a rehash destroys the entry at once: it is freed and off
\* the list (a Find on its name returns none), its capability's
\* back-reference is cleared and no module's object list holds a record for
\* it.  Del during a rehash frees nothing and marks the entry unloaded.
C4_DelImmediateOrDeferred ==
    [][last'.op = "Del" =>
        LET m == last'.m IN
        IF ircd_rehashing = 0
        THEN /\ m \notin live'
             /\ FindWalk(Reg(mem', live', mtaghandlers', mtag_handler', FALSE),
                         mtaghandlers', mem[m].name, {}) = <<"ret", NULL>>
             /\ mem[m].clicap_handler # NULL => mtag_handler'[mem[m].clicap_handler] = NULL
             /\ \A M \in Modules : m \notin Range(objects'[M])
        ELSE /\ live' = live
             /\ mem'[m].unloaded = 1
             /\ mtaghandlers' = mtaghandlers
             /\ mtag_handler' = mtag_handler]_vars

\* C5  An Add for a name that already has an active entry returns no entry,
\* sets the given module's error code to MODERR_EXISTS and changes nothing
\* else: entries, list, capabilities and object lists are as before.
C5_AddExistingFails ==
    [][(/\ last'.op = "Add"
        /\ status' = "running"
        /\ \E e \in Entries : Active(e) /\ SameName(mem[e].name, last'.req.name))
       => /\ last'.ret = NULL
          /\ last'.module # NULL => errorcode'[last'.module] = 1
          /\ \A M \in Modules \ {last'.module} : errorcode'[M] = errorcode[M]
          /\ UNCHANGED <<mem, live, mtaghandlers, mtag_handler, objects>>]_vars

\* The options of a request contradict each other: "no capability needed"
\* together with a capability, or neither of the two.
OptionsContradict(req) ==
    LET nocap == req.flags \in {1, 3}
    IN  (nocap /\ req.clicap_handler # NULL) \/ (~nocap /\ req.clicap_handler = NULL)

\* C6  Add aborts the process exactly when the options of the request are
\* contradictory, and an aborting call has changed nothing: entries, list,
\* capabilities, object lists and error codes are as before the call.
C6_AbortOnContradictoryOptions ==
    [][last'.op = "Add" =>
        /\ (status' = "aborted") <=> OptionsContradict(last'.req)
        /\ status' = "aborted" =>
              UNCHANGED <<mem, live, mtaghandlers, mtag_handler, objects,
                          errorcode, ircd_rehashing>>]_vars

\* A request with contradictory options was made and the process aborted.
C6_Witness ==
    /\ last.op = "Add" /\ status = "aborted"
    /\ last.req.flags = 1 /\ last.req.clicap_handler # NULL
    /\ live # {}

\* The active entries in list order.
ActiveInOrder == SelectSeq(ListCells, LAMBDA e : mem[e].unloaded = 0)

\* C7  A commit sweep that returns leaves no entry marked unloaded, and
\* every entry that was active is still there with the same contents, the
\* active entries being in the same order on the list.
C7_SweepFreesAllUnloaded ==
    [][(last'.op = "Sweep" /\ status' = "running") =>
        /\ \A e \in live' : mem'[e].unloaded = 0
        /\ \A e \in Entries : Active(e) =>
              /\ e \in live'
              /\ [mem'[e] EXCEPT !.prev = 0, !.next = 0] = [mem[e] EXCEPT !.prev = 0, !.next = 0]
        /\ ActiveInOrder' = ActiveInOrder]_vars

\* C8  No call other than the commit sweep frees an entry whose unloaded
\* flag is set, MessageTagHandlerDel included, in or out of a rehash.
C8_OnlySweepFreesUnloaded ==
    [][(\E e \in Entries : Unloaded(e) /\ e \notin live') => last'.op = "Sweep"]_vars

\* C9  No capability references a handler that has been destroyed.
C9_NoDanglingBackReference ==
    status = "running" =>
        \A c \in Caps : mtag_handler[c] # NULL => mtag_handler[c] \in live

\* C10  A Find that returns, returns an entry exactly when some entry,
\* active or unloaded, bears the name ignoring case; the entry returned
\* bears that name; and the call changes nothing.
C10_FindByName ==
    [][(last'.op = "Find" /\ status' = "running") =>
        LET token == last'.req.name
            ret == last'.ret
        IN  /\ (ret # NULL) <=> (\E e \in Entries : SameName(mem[e].name, token))
            /\ ret # NULL => (ret \in Entries /\ SameName(mem[ret].name, token))
            /\ UNCHANGED <<mem, live, mtaghandlers, mtag_handler, objects,
                           errorcode, ircd_rehashing>>]_vars
\* ---------------------------------------------------- claims on hook chains
\* The position of x in seq.
Pos(seq, x) == CHOOSE i \in DOMAIN seq : seq[i] = x

\* The chain of a hook type as it is now.
ChainNow(t) == HookChain(CurHReg, t)

\* C11  After any sequence of HookAdd and HookDel calls the chain of every
\* hook type holds every entry of the type once, in non-decreasing priority
\* order, entries of equal priority in the order of their registration; a
\* dispatch invokes the handlers in that order.
C11_ChainSortedByPriority ==
    \A t \in HookTypes :
        LET c == ChainNow(t) IN
        /\ Range(c) = {h \in hlive : hmem[h].type = t}
        /\ \A i, j \in DOMAIN c : i < j =>
              /\ c[i] # c[j]
              /\ hmem[c[i]].priority <= hmem[c[j]].priority
              /\ hmem[c[i]].priority = hmem[c[j]].priority
                    => Pos(horder, c[i]) < Pos(horder, c[j])
        /\ (hlast.op = "RunHook" /\ ~hlast.removed /\ hlast.type = t /\ status = "running")
              => hlast.calls = c

\* Entries registered with priorities 5, 1, 3 in that order were run by a
\* fire-and-continue dispatch in the order 1, 3, 5.
C11_Witness ==
    /\ Len(horder) = 3
    /\ hmem[horder[1]].priority = 5
    /\ hmem[horder[2]].priority = 1
    /\ hmem[horder[3]].priority = 3
    /\ hlast.op = "RunHook"
    /\ hlast.calls = <<horder[2], horder[3], horder[1]>>

\* C12  A fire-and-continue dispatch (RunHook*) whose handlers only return
\* values invokes every handler of the chain exactly once, in chain order,
\* whatever the values returned, and does not return early.
C12_FireAndContinue ==
    [][(hlast'.op = "RunHook" /\ ~hlast'.removed) =>
        /\ status' = "running"
        /\ hlast'.calls = ChainNow(hlast'.type)
        /\ ~hlast'.early
        /\ UNCHANGED <<hmem, hlive, Hooks>>]_vars

\* Three handlers ran although the first returned HOOK_DENY and the second
\* HOOK_ALLOW.
C12_Witness ==
    /\ hlast.op = "RunHook"
    /\ Len(hlast.calls) = 3
    /\ hlast.rets[1] = HOOK_DENY
    /\ hlast.rets[2] = HOOK_ALLOW

\* C13  A short-circuit dispatch (RunHookReturn*) whose handlers only return
\* values invokes the handlers in chain order up to and including the first
\* whose return value satisfies the caller's test and none after it, and
\* returns from the caller there; if no value satisfies the test every
\* handler is invoked once and the caller does not return early.
C13_ShortCircuit ==
    [][(hlast'.op \in {"RunHookReturn", "RunHookReturnInt"} /\ ~hlast'.removed) =>
        LET c == ChainNow(hlast'.type)
            n == Len(hlast'.calls)
        IN  /\ status' = "running"
            /\ n <= Len(c)
            /\ hlast'.calls = SubSeq(c, 1, n)
            /\ \A i \in 1..(n - 1) : ~RetChk(hlast'.chk, hlast'.rets[i])
            /\ hlast'.early <=> (n >= 1 /\ RetChk(hlast'.chk, hlast'.rets[n]))
            /\ ~hlast'.early => n = Len(c)]_vars

\* In a chain of three handlers the second returned HOOK_DENY, the caller
\* tested for HOOK_DENY and returned, and the third was not invoked.
C13_Witness ==
    /\ hlast.op = "RunHookReturn"
    /\ hlast.chk = "== HOOK_DENY"
    /\ Len(ChainNow(hlast.type)) = 3
    /\ Len(hlast.calls) = 2
    /\ hlast.rets[2] = HOOK_DENY
    /\ hlast.early

\* C14  An accumulate-and-return dispatch (RunHookReturnInt*) that returns
\* early returns the very value returned by the handler that ended the walk,
\* which is the first value satisfying the caller's test.
C14_ReturnsTriggeringValue ==
    [][(hlast'.op = "RunHookReturnInt" /\ ~hlast'.removed /\ hlast'.early) =>
        LET n == Len(hlast'.calls)
        IN  /\ n >= 1
            /\ hlast'.ret = hlast'.rets[n]
            /\ RetChk(hlast'.chk, hlast'.ret)
            /\ \A i \in 1..(n - 1) : ~RetChk(hlast'.chk, hlast'.rets[i])]_vars

\* The caller tested for "not HOOK_CONTINUE": the first handler returned
\* HOOK_CONTINUE, the second HOOK_ALLOW, and HOOK_ALLOW was returned.
C14_Witness ==
    /\ hlast.op = "RunHookReturnInt"
    /\ hlast.chk = "!= HOOK_CONTINUE"
    /\ hlast.early
    /\ hlast.rets = <<HOOK_CONTINUE, HOOK_ALLOW>>
    /\ hlast.ret = HOOK_ALLOW

\* C15  A dispatch during which a handler removes an entry of the chain (its
\* own included) never reads a removed entry, goes on, and a
\* fire-and-continue dispatch still invokes every handler that remains in
\* the chain.
C15_RemovalDuringDispatch ==
    [][(hlast'.op \in {"RunHook", "RunHookReturn", "RunHookReturnInt"} /\ hlast'.removed) =>
        /\ ~hlast'.uaf
        /\ status' = "running"
        /\ hlast'.op = "RunHook" =>
              \A h \in Range(HookChain(HReg(hmem', hlive', Hooks', FALSE), hlast'.type)) :
                  h \in Range(hlast'.calls)]_vars
\* ------------------------------------------------ claims on the callback table
\* C17  A use of CLOAK_KEYCRC is never a fault: with no callback in
\* RCallbacks[CALLBACKTYPE_CLOAKKEYCSUM] it yields "nil" and calls nothing,
\* otherwise it calls the function of the entry found there; it changes
\* nothing.
C17_UnsetCallbackYieldsNil ==
    [][cblast'.op = "CLOAK_KEYCRC" =>
        /\ status' = "running"
        /\ IF RCallbacks[CALLBACKTYPE_CLOAKKEYCSUM] = NULL
           THEN cblast'.value = "nil" /\ cblast'.called = 0
           ELSE /\ cblast'.called = cbmem[RCallbacks[CALLBACKTYPE_CLOAKKEYCSUM]].func
                /\ cblast'.called # 0
                /\ cblast'.value = "crc"
        /\ UNCHANGED <<cbmem, cblive, RCallbacks>>]_vars

\* CLOAK_KEYCRC was used and yielded "nil" while another callback type has
\* an implementation.
C17_Witness ==
    /\ cblast.op = "CLOAK_KEYCRC"
    /\ cblast.value = "nil"
    /\ RCallbacks[CALLBACKTYPE_CLOAKKEYCSUM] = NULL
    /\ RCallbacks[CALLBACKTYPE_CLOAK] # NULL
\* ------------------------------------------------ claims on ModData descriptors
\* C18  Within one entity type no two registered descriptors hold the same
\* slot index, every slot held is a slot of the type, and the slot and the
\* entity type of a descriptor do not change from its registration to its
\* unregistration, whatever is registered, unregistered or swept meanwhile.
C18_SlotsUniqueAndStable ==
    [][/\ \A d1, d2 \in mdlive' :
             (d1 # d2 /\ mdmem'[d1].type = mdmem'[d2].type)
                => mdmem'[d1].slot # mdmem'[d2].slot
       /\ \A d \in mdlive' : mdmem'[d].slot \in Slots
       /\ \A d \in mdlive \cap mdlive' :
             /\ mdmem'[d].slot = mdmem[d].slot
             /\ mdmem'[d].type = mdmem[d].type
             /\ mdmem'[d].name = mdmem[d].name]_vars

\* A descriptor was unregistered outside a rehash and another registered
\* afterwards: the new one has slot 0 again while a descriptor of the same
\* entity type still holds slot 1.
C18_Witness ==
    /\ mdlast.op = "ModDataAdd"
    /\ mdlast.ret # NULL
    /\ mdmem[mdlast.ret].slot = 0
    /\ \E d \in mdlive \ {mdlast.ret} :
          /\ mdmem[d].type = mdmem[mdlast.ret].type
          /\ mdmem[d].slot = 1
          /\ d < mdlast.ret
\* --------------------------------------------------- claims on module unload
\* C19  After a module is unloaded the call has returned normally, the
\* object list of the module is empty, no entry of the registry has the
\* module as its owner, no lookup returns an entry the module owned, and
\* no capability refers to an entry the module owned.
C19_UnloadRemovesEverything ==
    [][last'.op = "Unload" =>
        LET mod == last'.module
            owned == {e \in live : mem[e].owner = mod}
            R == Reg(mem', live', mtaghandlers', mtag_handler', FALSE)
        IN  /\ status' = "running"
            /\ objects'[mod] = <<>>
            /\ \A e \in live' : mem'[e].owner # mod
            /\ \A n \in NameSet : MessageTagHandlerFind(R, n)[2] \notin owned
            /\ \A c \in Caps : mtag_handler'[c] \notin owned]_vars
\* ---------------------------------------------------- claims on the rehash
\* C20  The commit sweep of a rehash returns, and after it the registry
\* holds exactly the entries that were active when it began (those never
\* deleted and those registered again during the rehash): they are all
\* active, they are the cells of the list, each is found under its name,
\* and every entry that was still marked unloaded is freed.
C20_RehashKeepsExactlyReRegistered ==
    [][(last'.op = "Sweep" /\ ircd_rehashing # 0) =>
        /\ status' = "running"
        /\ live' = {e \in live : Active(e)}
        /\ \A e \in live' : mem'[e].unloaded = 0
        /\ Range(ListCells') = live'
        /\ \A e \in live' :
              FindWalk(Reg(mem', live', mtaghandlers', mtag_handler', FALSE),
                       mtaghandlers', mem'[e].name, {}) = <<"ret", e>>]_vars
\* -------------------------------------------------------- claims on channeldb
\* The last input/output call of a channeldb call.
LastIO(c) == c.trace[Len(c.trace)]

\* An input/output call of a channeldb call failed.
IOFailed(c) ==
    \E i \in DOMAIN c.trace : c.trace[i] \in {"fopen!", "write!", "fclose!", "rename!"}

\* C21  A save gives the target file new contents only by a rename that
\* succeeded, and then the contents are those of the complete temporary
\* file; a rename is attempted only as the last call, after the fopen,
\* after every write call of the version, the count and the records has
\* succeeded, and after the fclose has succeeded; the save returns 1
\* exactly when the rename succeeded.
C21_RenameOnlyAfterFullWrite ==
    [][dblast'.op = "write" =>
        LET t   == dblast'.trace
            img == WriteCalls(channels)
        IN  /\ (dbfiles'.db # dbfiles.db /\ dbfiles'.db # NoFile)
                  => (LastIO(dblast') = "rename" /\ dbfiles'.db = img)
            /\ \A i \in DOMAIN t : t[i] \in {"rename", "rename!"} =>
                  /\ i = Len(t)
                  /\ t[1] = "fopen"
                  /\ \A j \in 2..(Len(img) + 1) : t[j] = "write"
                  /\ t[Len(img) + 2] = "fclose"
                  /\ \A j \in (Len(img) + 3)..(i - 1) : t[j] = "unlink"
            /\ (dblast'.ret = 1) <=> (LastIO(dblast') = "rename")
            /\ dblast'.ret \in {0, 1}]_vars

\* A save of two records has succeeded: the target holds them and the
\* temporary file is gone.
C21_Witness ==
    /\ dblast.op = "write"
    /\ dblast.ret = 1
    /\ Len(PersistentOf(channels)) = 2
    /\ dbfiles.db = WriteCalls(channels)
    /\ dbfiles.tmp = NoFile

\* C22  A save during which a call fails (the fopen of the temporary file,
\* a write, the fclose or the rename) returns 0 and leaves the target file
\* as it was.
C22_FailureKeepsOldFile ==
    [][(dblast'.op = "write" /\ IOFailed(dblast'))
        => (dblast'.ret = 0 /\ dbfiles'.db = dbfiles.db)]_vars
\* No +P channel of the list cs has a namesake among the channels in memory.
Fresh(cs) == \A i \in DOMAIN cs :
                has_channel_mode(cs[i], 80) => ChannelIndex(channels, cs[i].chname) = 0

\* C23  A load of a database that a save wrote from the channel list X,
\* into a server that has none of its channels, returns 1 having read the
\* whole file and counted every record; afterwards each saved channel
\* exists with every field as it was saved: name, creation time, topic,
\* topic setter, topic time, mode string, mode parameters, mode lock, and
\* the ban, exempt and invex lists with the same entries, each with its
\* setter and time, in the same places; the channels that were in memory
\* are as before.  X ranges over lists with no +P channel (a record count
\* of zero) and with channels whose lists are empty.
C23_RoundTripExact ==
    [][(dblast'.op = "read" /\ dblast'.trace[1] = "fopen") =>
        \A X \in ChannelLists : (dbfiles.db = WriteCalls(X) /\ Fresh(X)) =>
            LET P == PersistentOf(X)
            IN  /\ dblast'.ret = 1
                /\ dblast'.added = Len(P)
                /\ dblast'.pos = Len(dbfiles.db)
                /\ Len(channels') = Len(channels) + Len(P)
                /\ \A i \in DOMAIN P :
                      LET k == ChannelIndex(channels', P[i].chname)
                      IN  k # 0 /\ channels'[k] = P[i]
                /\ \A i \in DOMAIN channels :
                      channels'[i + Len(P)] = channels[i]]_vars

\* The number of tokens of a database up to the end of record i.
RECURSIVE RecordEnd(_, _)
RecordEnd(P, i) ==
    IF i = 0 THEN 2 ELSE RecordEnd(P, i - 1) + Len(write_channel_entry(P[i]))

\* The number of records that lie whole within the first k tokens.
CompleteRecords(P, k) == Cardinality({i \in DOMAIN P : RecordEnd(P, i) <= k})

\* The channel that a load restores from the record of channel ch.
Restored(ch) ==
    [ch EXCEPT !.banlist = Reverse(@), !.exlist = Reverse(@), !.invexlist = Reverse(@)]

\* C24  A load of a database that was cut short inside a record (or
\* between records) stops after the last whole record: it restores every
\* record that lies whole before the cut, creates or changes no other
\* channel, consumes no token behind the cut, and reports the number of
\* records it recovered when there is one.
C24_TruncatedFileRecovers ==
    [][(dblast'.op = "read" /\ dblast'.trace[1] = "fopen") =>
        \A X \in ChannelLists : \A k \in 2..(Len(WriteCalls(X)) - 1) :
            (dbfiles.db = SubSeq(WriteCalls(X), 1, k) /\ Fresh(X)) =>
                LET P == PersistentOf(X)
                    c == CompleteRecords(P, k)
                IN  /\ dblast'.pos <= k
                    /\ dblast'.added = c
                    /\ c > 0 => dblast'.reported
                    /\ Len(channels') = Len(channels) + c
                    /\ \A i \in 1..c :
                          \E j \in DOMAIN channels' : channels'[j] = Restored(P[i])
                    /\ \A i \in DOMAIN channels :
                          channels'[i + c] = channels[i]]_vars

\* The tokens of a saved database at which a record starts and ends.
StartAt(P, i) == RecordEnd(P, i - 1) + 1
EndAt(P, i) == RecordEnd(P, i)

\* C25  In a database that a save wrote, every record begins with the
\* start marker and ends with the end marker.  A load that meets another
\* value in the place of a start marker has restored the records before
\* it and nothing else; one that meets another value in the place of an
\* end marker has restored the records up to that one and nothing else;
\* in both cases the marker is the last token it consumed.
C25_MarkersBracketRecords ==
    [][/\ (dblast'.op = "write" /\ dblast'.ret = 1) =>
             LET P == PersistentOf(channels)
             IN  \A i \in DOMAIN P :
                    /\ dbfiles'.db[StartAt(P, i)] = U32(MAGIC_CHANNEL_START)
                    /\ dbfiles'.db[EndAt(P, i)] = U32(MAGIC_CHANNEL_END)
                    /\ \A t \in (StartAt(P, i) + 1)..(EndAt(P, i) - 1) :
                          ~IsMarker(dbfiles'.db[t])
       /\ (dblast'.op = "read" /\ dblast'.trace[1] = "fopen") =>
             \A X \in ChannelLists : \A i \in DOMAIN PersistentOf(X) :
                LET P == PersistentOf(X)
                    good == WriteCalls(X)
                IN  /\ (dbfiles.db = [good EXCEPT ![StartAt(P, i)] = U32(BadMagic)]
                        /\ Fresh(X)) =>
                           /\ dblast'.pos = StartAt(P, i)
                           /\ dblast'.added = i - 1
                           /\ Len(channels') = Len(channels) + (i - 1)
                    /\ (dbfiles.db = [good EXCEPT ![EndAt(P, i)] = U32(BadMagic)]
                        /\ Fresh(X)) =>
                           /\ dblast'.pos = EndAt(P, i)
                           /\ dblast'.added = i
                           /\ Len(channels') = Len(channels) + i
                           /\ \A j \in 1..i :
                                 \E m \in DOMAIN channels' :
                                    channels'[m] = Restored(P[j])]_vars

\* A load met a damaged marker behind the first record of a database of
\* two records, restored that record and consumed nothing behind the marker.
C25_Witness ==
    /\ dblast.op = "read"
    /\ dblast.added = 1
    /\ dblast.pos < Len(dbfiles.db)
    /\ dbfiles.db[dblast.pos] = U32(BadMagic)
    /\ \E ch \in SampleChannels \cap {c \in SampleChannels : has_channel_mode(c, 80)} :
          \E j \in DOMAIN channels : channels[j] = Restored(ch)

\* C26  A load that returns 0 has created no channel and changed none.
C26_FailedReadLeavesMemory ==
    [][(dblast'.op = "read" /\ dblast'.ret = 0) => channels' = channels]_vars
\* C27  Across the test, init, load and unload cycles of one process
\* MOD_LOAD calls read_channeldb at most once, and only in the first cycle
\* that reaches MOD_LOAD: an image initialised after an unload has the
\* flag that the unload saved.
C27_DatabaseReadOnce ==
    [][/\ modstate'.reads <= 1
       /\ (dblast'.op = "MOD_INIT" /\ persistent # -1)
             => channeldb_loaded' = persistent
       /\ (dblast'.op = "MOD_LOAD" /\ modstate'.reads > modstate.reads)
             => persistent = -1]_vars

\* A second image has been loaded after the unload of the first, which had
\* read the database; it did not read it again.
C27_Witness ==
    /\ dblast.op = "MOD_LOAD"
    /\ dblast.trace = <<"EventAdd">>
    /\ modstate.reads = 1
    /\ persistent = 1
    /\ channeldb_loaded = 1
\* ------------------------------------------------ further claims on the registry
\* C28  After an Add that returned an entry, new or revived, the owner of
\* the entry is the module of the call and its flags, is_ok, can_send and
\* clicap_handler are those of the request.
C28_AddBindsRequestFields ==
    [][(last'.op = "Add" /\ last'.ret # NULL /\ status' = "running") =>
        LET e == last'.ret
        IN  /\ e \in live'
            /\ mem'[e].owner = last'.module
            /\ mem'[e].flags = last'.req.flags
            /\ mem'[e].is_ok = last'.req.is_ok
            /\ mem'[e].can_send = last'.req.can_send
            /\ mem'[e].clicap_handler = last'.req.clicap_handler]_vars

\* The records of module M's object list that reference entry e.
RecordsOf(M, e) == {i \in DOMAIN objects[M] : objects[M][i] = e}

\* C29  In every state every module M has exactly one MOBJ_MTAG record for
\* each entry whose owner it is and none for any other entry or for freed
\* memory; entries without owner and entries marked unloaded have no
\* record anywhere; and an Add by a module that returns an entry leaves
\* that module's error code at MODERR_NOERROR.
C29_ObjectListMatchesOwners ==
    /\ \A M \in Modules :
          /\ \A e \in live :
                Cardinality(RecordsOf(M, e)) = (IF mem[e].owner = M THEN 1 ELSE 0)
          /\ \A i \in DOMAIN objects[M] : objects[M][i] \in live
          /\ \A e \in live :
                (mem[e].owner = NULL \/ mem[e].unloaded = 1) => RecordsOf(M, e) = {}
    /\ (last.op = "Add" /\ last.ret # NULL /\ last.module # NULL)
          => errorcode[last.module] = MODERR_NOERROR

\* C30  A revive during a rehash, the first or a later one of the same
\* entry, returns the entry that was deleted; the entry is then active and
\* owned by the module of the call, the registry list is acyclic and holds
\* it exactly once, and the module's object list holds exactly one record
\* for it.
C30_RepeatedRevive ==
    [][(last'.op = "Add" /\ last'.m # NULL /\ last'.ret # NULL
        /\ ircd_rehashing # 0) =>
        LET e == last'.ret
        IN  /\ status' = "running"
            /\ e = last'.m
            /\ e \in live' /\ mem'[e].unloaded = 0
            /\ mem'[e].owner = last'.module
            /\ ListAcyclic'
            /\ Cardinality({i \in DOMAIN ListCells' : ListCells'[i] = e}) = 1
            /\ Range(ListCells') = live'
            /\ last'.module # NULL =>
                  Cardinality({i \in DOMAIN objects'[last'.module] :
                                  objects'[last'.module][i] = e}) = 1]_vars
\* C31  MessageTagHandlerDel reads or writes no field of an entry whose
\* memory it has freed, inside a rehash or outside, with an owner or without.
C31_DelTouchesNoFreedEntry ==
    [][last'.op = "Del" => ~last'.uaf]_vars

\* C32  In every state the list mtaghandlers is acyclic and holds every live
\* entry exactly once, and no Find and no sweep runs for ever.
C32_ListAcyclicAndComplete ==
    /\ status # "hung"
    /\ status = "running" => (ListAcyclic /\ Range(ListCells) = live)

\* C33  In every state a capability references a handler exactly when that
\* handler, a live entry, references the capability.
C33_ReverseDependencySymmetric ==
    status = "running" =>
        \A c \in Caps : \A m \in live :
            (mtag_handler[c] = m) <=> (mem[m].clicap_handler = c)

\* The calls of a trace made on the file handle, and those that close it.
HandleCalls == {"write", "write!", "read!", "fclose", "fclose!"}
Closes(t) == {i \in DOMAIN t : t[i] \in {"fclose", "fclose!"}}

\* C34  A save or a load that opened its file closes the handle exactly
\* once before it returns, on the paths that succeed and on those that
\* fail, and makes no call on the handle after the close; a save or load
\* whose fopen failed makes no call on a handle at all.
C34_HandleClosedExactlyOnce ==
    [][dblast'.op \in {"write", "read"} =>
        LET t == dblast'.trace
        IN  IF t[1] = "fopen"
            THEN /\ Cardinality(Closes(t)) = 1
                 /\ \A i \in Closes(t) : \A j \in DOMAIN t :
                        j > i => t[j] \notin HandleCalls
            ELSE \A j \in DOMAIN t : t[j] \notin HandleCalls]_vars

\* A load has failed in the middle of a record of a damaged file and has
\* closed the file, after a save has failed at a write and closed its file.
C34_Witness ==
    /\ dblast.op = "read"
    /\ dblast.ret = 0
    /\ dblast.pos > 2
    /\ dblast.trace = <<"fopen", "read!", "fclose">>
    /\ dbfiles.tmp # NoFile
    /\ dbfiles.tmp # dbfiles.db

\* C35  A load of a database that a save wrote from the channel list X,
\* into a server that has none of its channels, gives each saved channel
\* its ban, exempt and invex list with the entries in the order in which
\* they were written.
C35_ListOrderPreserved ==
    [][(dblast'.op = "read" /\ dblast'.trace[1] = "fopen") =>
        \A X \in ChannelLists : (dbfiles.db = WriteCalls(X) /\ Fresh(X)) =>
            \A i \in DOMAIN PersistentOf(X) :
                LET ch == PersistentOf(X)[i]
                    k  == ChannelIndex(channels', ch.chname)
                IN  /\ k # 0
                    /\ channels'[k].banlist = ch.banlist
                    /\ channels'[k].exlist = ch.exlist
                    /\ channels'[k].invexlist = ch.invexlist]_vars

\* The database file is the save of channel list X with another version
\* field.
SavedAs(X, version) ==
    /\ Len(dbfiles.db) = Len(WriteCalls(X))
    /\ dbfiles.db = [WriteCalls(X) EXCEPT ![1] = U32(version)]

\* C36  A load of a database whose version field is greater than
\* CHANNELDB_VERSION returns 0 having read nothing but the version (neither
\* the record count nor a record) and leaves the channels as they were; a
\* load of a database whose version field is CHANNELDB_VERSION or less goes
\* on to read the count and the records: of a whole file saved from X, into
\* a server that has none of its channels, it reads all and returns 1.
C36_NewerVersionRejected ==
    [][(dblast'.op = "read" /\ dblast'.trace[1] = "fopen" /\ CanRead(dbfiles.db, 0, 4)) =>
        LET version == dbfiles.db[1].v[1]
        IN  /\ version > CHANNELDB_VERSION =>
                /\ dblast'.ret = 0
                /\ dblast'.pos = 1
                /\ dblast'.added = 0
                /\ channels' = channels
            /\ version <= CHANNELDB_VERSION =>
                \A X \in ChannelLists : (SavedAs(X, version) /\ Fresh(X)) =>
                    /\ dblast'.ret = 1
                    /\ dblast'.pos = Len(dbfiles.db)
                    /\ dblast'.added = Len(PersistentOf(X))]_vars

\* A load has rejected a database of a newer version that holds a record,
\* into a server without channels.
C36_Witness ==
    /\ dblast.op = "read"
    /\ dblast.ret = 0
    /\ dblast.pos = 1
    /\ dblast.trace = <<"fopen", "fclose">>
    /\ dbfiles.db[1].v[1] > CHANNELDB_VERSION
    /\ dbfiles.db[2].v[1] > 0
    /\ channels = <<>>

\* A load has accepted a database of an older version and restored its
\* record.
C36_WitnessOlder ==
    /\ dblast.op = "read"
    /\ dblast.ret = 1
    /\ dblast.added > 0
    /\ dbfiles.db[1].v[1] < CHANNELDB_VERSION

\* The renames of a trace.
Renames(t) == {i \in DOMAIN t : t[i] \in {"rename", "rename!"}}

\* MOD_LOAD has just called read_channeldb.
FirstLoad == dblast'.op = "MOD_LOAD" /\ modstate'.reads > modstate.reads

\* C37  On a first load that finds no database file (fopen fails with
\* ENOENT) read_channeldb returns success having created no channel, and
\* MOD_LOAD makes no rename and leaves the files alone; on a first load
\* whose fopen fails for another reason read_channeldb returns failure,
\* having created no channel, and MOD_LOAD goes on to the rename.
C37_MissingDatabaseIsNoError ==
    [][FirstLoad =>
        LET t == dblast'.trace
        IN  /\ (t[1] = "fopen?") <=> (dbfiles.db = NoFile /\ t[1] # "fopen!")
            /\ t[1] = "fopen?" =>
                  /\ Renames(t) = {}
                  /\ channels' = channels
                  /\ dblast'.added = 0
                  /\ files' = files
            /\ t[1] = "fopen!" =>
                  /\ Renames(t) = {2}
                  /\ channels' = channels
                  /\ dblast'.added = 0]_vars

\* A first load has found no database and has gone on without a rename.
C37_Witness ==
    /\ dblast.op = "MOD_LOAD"
    /\ dblast.trace = <<"fopen?", "EventAdd">>
    /\ dblast.ret = MOD_SUCCESS
    /\ channeldb_loaded = 1
    /\ dbfiles.db = NoFile
    /\ dbfiles.corrupt = NoFile

\* C38  A first load whose read of the database fails attempts the rename
\* to <database>.corrupt right after the read, sets channeldb_loaded to 1
\* whether the rename succeeds or not, registers the periodic save event,
\* and returns what it returns after a read that succeeded: MOD_FAILED
\* only when EventAdd left an error on the module.  No later MOD_LOAD of
\* the process reads the database again.
C38_FailedReadDoesNotFailLoad ==
    [][/\ modstate'.reads <= 1
       /\ (FirstLoad /\ Renames(dblast'.trace) # {}) =>
            LET t == dblast'.trace
            IN  /\ Cardinality(Renames(t)) = 1
                /\ Renames(t) = {Len(t) - 1}
                /\ LastIO(dblast') \in {"EventAdd", "EventAdd!"}
                /\ channeldb_loaded' = 1
                /\ modstate'.phase = "loaded"
                /\ (dblast'.ret = MOD_FAILED) <=> (LastIO(dblast') = "EventAdd!")
                /\ t[Len(t) - 1] = "rename" =>
                      (dbfiles'.corrupt = dbfiles.db /\ dbfiles'.db = NoFile)
                /\ t[Len(t) - 1] = "rename!" => files' = files
       /\ (FirstLoad /\ dblast'.ret = MOD_SUCCESS) => channeldb_loaded' = 1]_vars

\* The module has been loaded a second time in a process whose first load
\* could not read a damaged database and could not rename it either; the
\* second load did not read.
C38_Witness ==
    /\ dblast.op = "MOD_LOAD"
    /\ dblast.trace = <<"EventAdd">>
    /\ dblast.ret = MOD_SUCCESS
    /\ modstate.reads = 1
    /\ persistent = 1
    /\ dbfiles.corrupt = NoFile
    /\ dbfiles.db \in CutFiles

\* C39  A first load that opens a database in which the end marker of
\* record i is overwritten has applied and counted that record, and every
\* record before it, when it leaves the loop; one that finds the start
\* marker of record i overwritten has counted the records before it.  In
\* both cases read_channeldb closes the file and returns success: MOD_LOAD
\* makes no rename and the damaged file stays in place.  A later save that
\* succeeds puts the database of the channels in memory in its place.
C39_MarkerMismatchReturnsSuccess ==
    [][/\ (FirstLoad /\ dblast'.trace[1] = "fopen") =>
            \A X \in ChannelLists : \A i \in DOMAIN PersistentOf(X) :
                LET P == PersistentOf(X)
                    good == WriteCalls(X)
                    quiet == /\ dblast'.trace[2] = "fclose"
                             /\ Renames(dblast'.trace) = {}
                             /\ Len(dblast'.trace) = 3
                             /\ files' = files
                IN  /\ (dbfiles.db = [good EXCEPT ![EndAt(P, i)] = U32(BadMagic)]
                        /\ Fresh(X)) =>
                           /\ dblast'.added = i
                           /\ dblast'.reported
                           /\ \A j \in 1..i :
                                 \E m \in DOMAIN channels' :
                                    channels'[m] = Restored(P[j])
                           /\ quiet
                    /\ (dbfiles.db = [good EXCEPT ![StartAt(P, i)] = U32(BadMagic)]
                        /\ Fresh(X)) =>
                           /\ dblast'.added = i - 1
                           /\ Len(channels') = Len(channels) + (i - 1)
                           /\ quiet
       /\ (dblast'.op = "MOD_UNLOAD" /\ LastIO(dblast') = "rename") =>
            /\ files'[cfg.database].db = WriteCalls(channels)
            /\ files'[cfg.database].corrupt = dbfiles.corrupt]_vars

\* A first load has met an overwritten end marker at the end of the only
\* record of the database: the channel exists, it was counted, the file
\* was not renamed and is still the damaged one.
C39_Witness ==
    /\ dblast.op = "MOD_LOAD"
    /\ dblast.trace = <<"fopen", "fclose", "EventAdd">>
    /\ dblast.added = 1
    /\ dblast.pos = Len(dbfiles.db)
    /\ dbfiles.db[dblast.pos] = U32(BadMagic)
    /\ dbfiles.db \in BadMarkerFiles
    /\ dbfiles.corrupt = NoFile
    /\ Len(channels) = 1

====
